---------------------------- MODULE Spec2Model ----------------------------
(***************************************************************************)
(* Model of the QX-Algo trading bot: the range model (model_logic.py), the *)
(* risk manager and the polling engine (topstepx_market_client.py) and the *)
(* capped sizing variant (backtest_topstepx.py).                           *)
(*                                                                         *)
(* Units.  Time is in minutes; an absolute time is day*1440 + minute of    *)
(* day.  A price is an integer number of 1/40 point (TICK_SIZE 0.25 = 10,  *)
(* 2.0 points = 80, 5.0 points = 200).  Money is in 1/8 dollar, so that    *)
(* one price unit on one contract is one money unit (POINT_VALUE = 5 $ per *)
(* point = TICK_VALUE / TICK_SIZE) and $2000 = 16000.  Risk percentages    *)
(* are in tenths of a percent (0.015 = 15).                                *)
(***************************************************************************)
EXTENDS Integers, Sequences, FiniteSets, TLC

VARIABLES
    now,        \* wall clock (absolute minutes, US/Eastern civil time)
    mkt,        \* the bar source: what a successful fetch would return now
    plan,       \* which stretch of the calendar the clock runs through
    polls,      \* iterations of the polling loop since the latest bar closed
    c,          \* the TopstepXMarketClient object
    outcome,    \* how run_signals_on_bars ended in the last poll iteration
    lossHit,    \* history: daily_pnl was <= -max_daily_loss after an iteration since the last reset
    inp,        \* input of the pure function under check (function specifications)
    out         \* its result

vars == <<now, mkt, plan, polls, c, outcome, lossHit, inp, out>>

---------------------------------------------------------------------------
(* Helpers *)

None == <<>>
Some(x) == <<x>>

Max(a, b) == IF a >= b THEN a ELSE b
Min(a, b) == IF a <= b THEN a ELSE b
Abs(a) == IF a >= 0 THEN a ELSE 0 - a

\* Python dict: a function with a growing domain
DictGet(d, k) == IF k \in DOMAIN d THEN Some(d[k]) ELSE None
DictPut(d, k, v) == (k :> v) @@ d

Date(t) == t \div 1440
TimeOfDay(t) == t % 1440

Sessions == {"odr", "rdr", "adr"}

---------------------------------------------------------------------------
(* Bounds of the model *)

\* number of civil days the clock runs through
MaxDay == 2

\* iterations of the polling loop between two bar closes (the loop sleeps 30
\* seconds, a bar takes 5 minutes)
MaxPollsPerBar == 2

\* minutes of the day at which a bar closes and the loop polls: a run through
\* the odr trading window, one from the odr into the rdr trading window, one
\* through the adr trading window, and what each sees of the days after the
\* first
MorningMinutes == {245, 250, 255, 260, 265, 315}
MiddayMinutes == {245, 250, 600, 635, 640, 645}
EveningMinutes == {1235, 1240, 1245, 1250, 1255}
LaterDayMinutes == {30, 245}
Plans == {"morning", "midday", "evening"}

---------------------------------------------------------------------------
(* Program constants *)

\* topstepx_market_client.py:60, $2000 in 1/8 dollar
max_daily_loss == 16000
\* topstepx_market_client.py:58, $2000.0 in 1/8 dollar
INITIAL_VIRTUAL_BALANCE == 16000
\* topstepx_market_client.py:104, the literal 2 of can_trade
MAX_TRADES == 2
\* topstepx_market_client.py:416, minutes
FRESHNESS_MINUTES == 10
\* topstepx_market_client.py:631, 3600 seconds in minutes
TIME_LIMIT_MINUTES == 60
\* topstepx_market_client.py:673, 5.0 points in 1/40 point
TRAIL_DISTANCE == 200
\* topstepx_market_client.py:487, 2.0 points in 1/40 point
STOP_OFFSET == 80
\* model_logic.py:79, minimum number of bars of a formation interval
MIN_FORMATION_BARS == 5

\* model_logic.py:13-18, the range-formation intervals (inclusive)
FormationStart(s) == CASE s = "odr" -> 180 [] s = "rdr" -> 570 [] s = "adr" -> 1170
FormationEnd(s) == CASE s = "odr" -> 235 [] s = "rdr" -> 625 [] s = "adr" -> 1225

\* model_logic.py:148-152, the trading intervals (adr ends at 01:00 of the next day)
TradingStart(s) == CASE s = "odr" -> 240 [] s = "rdr" -> 630 [] s = "adr" -> 1230
TradingEnd(s) == CASE s = "odr" -> 480 [] s = "rdr" -> 960 [] s = "adr" -> 60

---------------------------------------------------------------------------
(* RiskManager: topstepx_market_client.py *)

\* a risk state that books losses only
BookLossesOnly(cl, trade_pnl) ==
    IF trade_pnl > 0 THEN cl
    ELSE [cl EXCEPT !.daily_pnl = @ + trade_pnl,
                    !.account_balance_virtual = @ + trade_pnl]

\* update_risk_state without the reset of the opposite streak counter
KeepOtherStreak(cl, trade_pnl) ==
    [cl EXCEPT !.daily_pnl = @ + trade_pnl,
               !.account_balance_virtual = @ + trade_pnl,
               !.consecutive_wins = IF trade_pnl > 0 THEN @ + 1 ELSE @,
               !.consecutive_losses = IF trade_pnl > 0 THEN @ ELSE @ + 1,
               !.current_risk_percent =
                   IF trade_pnl > 0
                   THEN (IF cl.consecutive_wins + 1 = 2 THEN 20
                         ELSE IF cl.consecutive_wins + 1 > 2 THEN 15 ELSE @)
                   ELSE 10]

\* update_risk_state(trade_pnl)
update_risk_state(cl, trade_pnl) ==
    LET wins == IF trade_pnl > 0 THEN cl.consecutive_wins + 1 ELSE 0
        losses == IF trade_pnl > 0 THEN 0 ELSE cl.consecutive_losses + 1
        risk == IF trade_pnl > 0
                THEN (IF wins = 2 THEN 20
                      ELSE IF wins > 2 THEN 15
                      ELSE cl.current_risk_percent)
                ELSE 10
    IN  [cl EXCEPT !.daily_pnl = @ + trade_pnl,
                   !.account_balance_virtual = @ + trade_pnl,
                   !.consecutive_wins = wins,
                   !.consecutive_losses = losses,
                   !.current_risk_percent = risk]

\* can_trade with the per-session cap left out
CanTradeNoCap(cl, session_key) == ~(cl.daily_pnl <= 0 - max_daily_loss)

\* can_trade(session_key)
can_trade(cl, session_key) ==
    IF cl.daily_pnl <= 0 - max_daily_loss THEN FALSE
    ELSE IF cl.session_trades[session_key] >= MAX_TRADES THEN FALSE
    ELSE TRUE

\* risk_dollars // risk_per_contract, with risk_dollars = max(0, balance * 0.12)
\* and risk_per_contract = (stop_distance / TICK_SIZE) * TICK_VALUE, which in
\* 1/8 dollar is the stop distance in 1/40 point
RiskFloorDiv(balance, stop_distance) ==
    IF balance <= 0 THEN 0 ELSE (12 * balance) \div (100 * stop_distance)

\* calculate_position_size without the floor of one contract
SizeNoFloor(balance, entry, stop) ==
    IF Abs(entry - stop) > 0 THEN RiskFloorDiv(balance, Abs(entry - stop)) ELSE 1

\* calculate_position_size(entry, stop), reading self.account_balance_virtual
calculate_position_size(balance, entry, stop) ==
    LET stop_distance == Abs(entry - stop)
    IN  IF stop_distance > 0
        THEN Max(1, RiskFloorDiv(balance, stop_distance))
        ELSE 1

\* backtest_topstepx.py:64, BASE_BALANCE = 2000.0 in 1/8 dollar
BASE_BALANCE == 16000
\* backtest_topstepx.py:74, the 240 dollars of the max-loss check in 1/8 dollar
BACKTEST_MAX_LOSS == 1920
\* backtest_topstepx.py:80, the cap on the number of contracts
MAX_CONTRACTS == 48

\* calculate_position_size(entry, stop, balance) of backtest_topstepx.py; the
\* balance argument is not read
backtest_calculate_position_size(entry, stop, balance) ==
    LET stop_distance == Abs(entry - stop)
        contracts == IF stop_distance > 0
                     THEN Max(1, (12 * BASE_BALANCE) \div (100 * stop_distance))
                     ELSE 1
        max_loss == stop_distance * contracts
        capped == IF max_loss > BACKTEST_MAX_LOSS
                  THEN Max(1, BACKTEST_MAX_LOSS \div stop_distance)
                  ELSE contracts
    IN  Min(capped, MAX_CONTRACTS)

---------------------------------------------------------------------------
(* The bar source.  The engine reads four things from a fetched bar window: *)
(* the timestamp and close of its last bar, the boundaries compute_boundaries*)
(* yields for a (session, date), and the confirmation detect_confirmations  *)
(* yields for (session, today).  mkt carries exactly these; the functions   *)
(* themselves are modelled on bar series further down.                      *)

\* The DR/IDR levels a valid formation interval of a session produces
\* (QXRange.compute_boundaries), here one fixed geometry per session:
\* IDR range 5 points, wicks of 1 point, std of the closes 2 points.  All
\* levels derived from it (entry, midpoint, stop, target) are whole ticks, on
\* which the program's floating-point arithmetic is exact.
RangeBase(s) == CASE s = "odr" -> 1200 [] s = "rdr" -> 0 [] s = "adr" -> 0

FeedBoundaries(s) ==
    [dr_high |-> RangeBase(s) + 240, dr_low |-> RangeBase(s) - 40,
     idr_high |-> RangeBase(s) + 200, idr_low |-> RangeBase(s),
     closes_std |-> 80]

\* closing prices a new bar can have, by the time of day it closes at: around
\* the odr range in the morning, around the rdr and adr range afterwards
PricesAt(t) ==
    IF TimeOfDay(t) < 600 THEN {1300, 1450, 1500}
    ELSE IF TimeOfDay(t) < 630 THEN {140, 1300}
    ELSE IF TimeOfDay(t) < 1200 THEN {0 - 50, 100, 1300}
    ELSE {0 - 150, 0 - 100, 100}

\* QXRange.detect_confirmations, as bars are appended: the confirmation of
\* (session, today) is the first bar of today inside the trading interval
\* (for adr: from 20:30 to the end of the civil day, the bars of one date
\* group) whose close is beyond the DR
InTradingBars(s, t) ==
    IF s = "adr" THEN TimeOfDay(t) >= TradingStart(s)
    ELSE TimeOfDay(t) >= TradingStart(s) /\ TimeOfDay(t) <= TradingEnd(s)

FeedConfirmation(m, s, t, close) ==
    LET b == FeedBoundaries(s)
    IN  IF m.conf[s] # None \/ ~m.formed[s] \/ ~InTradingBars(s, t) THEN m.conf[s]
        ELSE IF close > b.dr_high THEN Some([time |-> t, bias |-> "bullish"])
        ELSE IF close < b.dr_low THEN Some([time |-> t, bias |-> "bearish"])
        ELSE None

---------------------------------------------------------------------------
(* TradingEngine: topstepx_market_client.py *)

\* __init__, lines 46-65
InitClient(today) ==
    [today |-> today,
     bars_df |-> None,
     daily_pnl |-> 0,
     session_trades |-> [s \in Sessions |-> 0],
     consecutive_wins |-> 0,
     consecutive_losses |-> 0,
     current_risk_percent |-> 15,
     open_trades |-> <<>>,
     account_balance_virtual |-> INITIAL_VIRTUAL_BALANCE,
     last_confirmation_traded |-> <<>>,
     last_dr_traded |-> <<>>,
     last_processed_bar |-> <<>>,
     session_cache |-> <<>>,
     trade_log |-> <<>>,
     exits |-> <<>>]

\* reset_daily that keeps the per-session counters
ResetKeepingCounts(cl) ==
    [cl EXCEPT !.daily_pnl = 0,
               !.consecutive_wins = 0,
               !.consecutive_losses = 0,
               !.current_risk_percent = 15,
               !.open_trades = <<>>,
               !.last_confirmation_traded = <<>>,
               !.last_dr_traded = <<>>,
               !.last_processed_bar = <<>>,
               !.session_cache = <<>>]

\* reset_daily()
reset_daily(cl) ==
    [cl EXCEPT !.daily_pnl = 0,
               !.session_trades = [s \in Sessions |-> 0],
               !.consecutive_wins = 0,
               !.consecutive_losses = 0,
               !.current_risk_percent = 15,
               !.open_trades = <<>>,
               !.last_confirmation_traded = <<>>,
               !.last_dr_traded = <<>>,
               !.last_processed_bar = <<>>,
               !.session_cache = <<>>]

\* get_current_session(now): the session whose trading window holds now
get_current_session(t) ==
    LET tod == TimeOfDay(t)
    IN  IF 1230 <= tod \/ tod < 60 THEN Some("adr")
        ELSE IF 240 <= tod /\ tod < 480 THEN Some("odr")
        ELSE IF 630 <= tod /\ tod < 960 THEN Some("rdr")
        ELSE None

\* get_dr_window_end(session)
get_dr_window_end(s) == FormationEnd(s)

\* the session date of get_or_compute_session_boundaries, lines 134-136
SessionDate(s, t) ==
    IF s = "adr" /\ TimeOfDay(t) < 60 THEN Date(t) - 1 ELSE Date(t)

\* get_session_window_bars(...)['close'].std(): the formation bars of the
\* CURRENT date; before 01:00 the adr formation of the current date has no
\* bar yet, and the result is empty (None)
SessionWindowStd(s, t) ==
    IF SessionDate(s, t) = Date(t) THEN Some(FeedBoundaries(s).closes_std) ELSE None

\* whether compute_boundaries has valid (non-NaN) rows for the session date
HasValidBounds(bars, s, t) ==
    IF SessionDate(s, t) = Date(t) THEN bars.formed[s] ELSE bars.formed_prev

\* the record get_or_compute_session_boundaries caches, lines 165-187
CachedBounds(s, t) ==
    LET b == FeedBoundaries(s)
        w == SessionWindowStd(s, t)
    IN  [dr_high |-> b.dr_high, dr_low |-> b.dr_low,
         idr_high |-> b.idr_high, idr_low |-> b.idr_low,
         dr_end |-> SessionDate(s, t) * 1440 + FormationEnd(s),
         idr_std |-> IF w # None THEN w[1]
                     ELSE (3 * (b.idr_high - b.idr_low)) \div 10]

\* Entry/stop/target of the fixed entry model, lines 476-513
IdrMidpoint(b) == b.idr_low + (b.idr_high - b.idr_low) \div 2

\* an entry at the IDR edge, without the 20% retrace
EntryAtIdrEdge(bias, b) == IF bias = "bullish" THEN b.idr_high ELSE b.idr_low

\* a stop at the midpoint of the IDR, without the 2-point offset
StopAtMidpoint(bias, b) == IdrMidpoint(b)

EntryPrice(bias, b) ==
    IF bias = "bullish" THEN b.idr_high - (2 * (b.idr_high - b.idr_low)) \div 10
    ELSE b.idr_low + (2 * (b.idr_high - b.idr_low)) \div 10

StopLoss(bias, b) ==
    IF bias = "bullish" THEN IdrMidpoint(b) - STOP_OFFSET ELSE IdrMidpoint(b) + STOP_OFFSET

TakeProfit(bias, b) ==
    IF bias = "bullish" THEN b.idr_high + b.idr_std ELSE b.idr_low - b.idr_std

\* the dict appended to open_trades, lines 558-574
NewTrade(s, bias, b, contracts, t) ==
    [session |-> s,
     entry |-> EntryPrice(bias, b),
     stop |-> StopLoss(bias, b),
     tp |-> TakeProfit(bias, b),
     bias |-> bias,
     contracts |-> contracts,
     contracts_remaining |-> contracts,
     open_time |-> t,
     partial_taken |-> FALSE,
     trailing_stop_active |-> FALSE,
     trailing_stop_price |-> None,
     highest_price |-> IF bias = "bullish" THEN Some(EntryPrice(bias, b)) ELSE None,
     lowest_price |-> IF bias = "bearish" THEN Some(EntryPrice(bias, b)) ELSE None,
     order_id |-> <<s, t>>]

\* a counter that jumps past the cap when a slot is consumed
ConsumeSlotPastCap(n) == n + MAX_TRADES + 1

\* a slot counted twice
ConsumeTwoSlots(n) == n + 2

\* self.session_trades[session] += 1, lines 497, 576, 584 and 592
ConsumeSlot(n) == n + 1

\* log_trade, lines 313-323: a row is appended to trade_log.csv (the rows this
\* process wrote); order is what the call passes as order_id: the id of the
\* accepted order ("order"), 'FAILED' or 'ERROR: ...'
log_trade(cl, t, s, bias, contracts, order) ==
    [cl EXCEPT !.trade_log = Append(@, [timestamp |-> t, session |-> s, bias |-> bias,
                                        size |-> contracts, order_id |-> order])]

\* the slot counted without setting the guard keys
CountOnly(cl, s, t, conf_time, b, bias) ==
    [cl EXCEPT !.session_trades[s] = @ + 1]

\* the guard keys set without counting the slot
GuardKeysOnly(cl, s, t, conf_time, b, bias) ==
    [cl EXCEPT !.last_confirmation_traded = DictPut(@, s, conf_time),
               !.last_dr_traded = DictPut(@, <<s, Date(t)>>, <<b.dr_high, b.dr_low, bias>>)]

\* an attempt that is counted against every session
CountEverySession(cl, s, t, conf_time, b, bias) ==
    [cl EXCEPT !.session_trades = [x \in Sessions |-> @[x] + 1],
               !.last_confirmation_traded = DictPut(@, s, conf_time),
               !.last_dr_traded = DictPut(@, <<s, Date(t)>>, <<b.dr_high, b.dr_low, bias>>)]

\* lines 576-578, 584-586, 592-594: count the slot and set the guard keys
RecordAttempt(cl, s, t, conf_time, b, bias) ==
    [cl EXCEPT !.session_trades[s] = ConsumeSlot(@),
               !.last_confirmation_traded = DictPut(@, s, conf_time),
               !.last_dr_traded = DictPut(@, <<s, Date(t)>>, <<b.dr_high, b.dr_low, bias>>)]

Done(cl, tag) == [cl |-> cl, outcome |-> tag, raised |-> FALSE]
Raised(cl, tag) == [cl |-> cl, outcome |-> tag, raised |-> TRUE]

\* an order whose trade is tracked twice
OpenTradeTwice(cl, trade) ==
    [cl EXCEPT !.open_trades = Append(Append(@, trade), trade)]

\* self.open_trades.append({...}), lines 558-574
OpenTrade(cl, trade) ==
    [cl EXCEPT !.open_trades = Append(@, trade)]

\* run_signals_on_bars from the order submission on, lines 522-601
\* (ENABLE_LIVE_TRADING is True); resp is what place_order does
SubmitOrder(cl, s, t, conf, b, resp) ==
    LET bias == conf.bias
        contracts == calculate_position_size(cl.account_balance_virtual,
                                             EntryPrice(bias, b), StopLoss(bias, b))
        counted == RecordAttempt(cl, s, t, conf.time, b, bias)
    IN  IF resp = "accepted"
        THEN Done(log_trade(RecordAttempt(OpenTrade(cl, NewTrade(s, bias, b, contracts, t)),
                                          s, t, conf.time, b, bias),
                            t, s, bias, contracts, "order"),
                  "accepted")
        ELSE IF resp = "failed"
        THEN Done(log_trade(counted, t, s, bias, contracts, "FAILED"), "failed")
        ELSE Done(log_trade(counted, t, s, bias, contracts, "ERROR"), "error")

\* run_signals_on_bars from the risk check on, lines 460-520
EnterOnRetrace(cl, s, t, bars, conf, b, resp) ==
    LET bias == conf.bias
        current_price == bars.close
    IN  IF ~can_trade(cl, s) THEN Done(cl, "risk_blocked")
        ELSE IF bias = "bullish" /\ current_price >= TakeProfit(bias, b)
        THEN Done([cl EXCEPT !.session_trades[s] = ConsumeSlot(@)], "move_missed")
        ELSE IF bias = "bullish" /\ current_price > EntryPrice(bias, b)
        THEN Done(cl, "wait_retrace")
        ELSE IF bias = "bearish" /\ current_price < EntryPrice(bias, b)
        THEN Done(cl, "wait_retrace")
        ELSE SubmitOrder(cl, s, t, conf, b, resp)

\* the re-trade guard on the DR, lines 449-458
SameDrTraded(cl, s, t, b, bias) ==
    LET last_dr == DictGet(cl.last_dr_traded, <<s, Date(t)>>)
    IN  /\ last_dr # None
        /\ 2 * Abs(b.dr_high - last_dr[1][1]) < 40
        /\ 2 * Abs(b.dr_low - last_dr[1][2]) < 40
        /\ bias = last_dr[1][3]

\* a freshness check that lets every confirmation pass
NeverStale(t, conf_time) == FALSE

\* lines 415-416: the confirmation is more than 10 minutes old
Stale(t, conf_time) == t - conf_time > FRESHNESS_MINUTES

\* run_signals_on_bars from the confirmation check on, lines 396-458
EvaluateConfirmation(cl, s, t, bars, b, resp) ==
    LET found == bars.conf[s]
    IN  IF found = None THEN Done(cl, "no_confirmation")
        ELSE LET conf == found[1]
             IN  IF Stale(t, conf.time) THEN Done(cl, "stale")
                 ELSE IF DictGet(cl.last_confirmation_traded, s) = Some(conf.time)
                 THEN Done(cl, "already_traded")
                 ELSE IF \E i \in 1..Len(cl.open_trades) : cl.open_trades[i].session = s
                 THEN Done(cl, "position_open")
                 ELSE IF SameDrTraded(cl, s, t, b, conf.bias) THEN Done(cl, "same_dr")
                 ELSE EnterOnRetrace(cl, s, t, bars, conf, b, resp)

\* the bar-close trigger that never skips
NeverProcessed(cl, s, bars) == FALSE

\* the bar-close trigger, lines 360-365
AlreadyProcessed(cl, s, bars) ==
    DictGet(cl.last_processed_bar, s) = Some(bars.bar_time)

\* a cache hit that prints without raising
CacheHitPrints(cl, cache_key) == FALSE

\* get_or_compute_session_boundaries, lines 141-142: on a cache hit the print
\* formats an undefined name (current_date) and raises NameError
CacheHitRaises(cl, cache_key) == cache_key \in DOMAIN cl.session_cache

\* run_signals_on_bars(bars_df, current_session, now_est); line 143 returns
\* the cached dict on a hit, lines 145-191 compute and cache on a miss
run_signals_on_bars(cl, s, t, bars, resp) ==
    IF AlreadyProcessed(cl, s, bars) THEN Done(cl, "skip")
    ELSE LET c1 == [cl EXCEPT !.last_processed_bar = DictPut(@, s, bars.bar_time)]
             cache_key == <<s, SessionDate(s, t)>>
             hit == cache_key \in DOMAIN c1.session_cache
         IN  IF CacheHitRaises(c1, cache_key) THEN Raised(c1, "cache_hit_error")
             ELSE IF ~hit /\ ~HasValidBounds(bars, s, t) THEN Done(c1, "no_boundaries")
             ELSE LET b == IF hit THEN c1.session_cache[cache_key] ELSE CachedBounds(s, t)
                      c2 == [c1 EXCEPT !.session_cache = DictPut(@, cache_key, b)]
                  IN  IF TimeOfDay(t) < get_dr_window_end(s) THEN Done(c2, "dr_window_wait")
                      ELSE EvaluateConfirmation(c2, s, t, bars, b, resp)

---------------------------------------------------------------------------
(* check_open_trades: the exit rules, lines 605-746 *)

\* P&L of n contracts closed at price
ClosePnl(trade, price, n) ==
    IF trade.bias = "bullish" THEN (price - trade.entry) * n
    ELSE (trade.entry - price) * n

\* a trailing stop that follows the current price both ways
FollowPrice(trade, extreme, price) ==
    IF trade.bias = "bullish" THEN price - TRAIL_DISTANCE ELSE price + TRAIL_DISTANCE

\* a trailing stop that stays where the partial take put it
NoRatchet(trade, extreme, price) == trade.trailing_stop_price[1]

\* lines 681-685 and 733-737: the trailing stop follows the extreme price
Ratchet(trade, extreme, price) ==
    IF trade.bias = "bullish"
    THEN (IF extreme - TRAIL_DISTANCE > trade.trailing_stop_price[1]
          THEN extreme - TRAIL_DISTANCE ELSE trade.trailing_stop_price[1])
    ELSE (IF extreme + TRAIL_DISTANCE < trade.trailing_stop_price[1]
          THEN extreme + TRAIL_DISTANCE ELSE trade.trailing_stop_price[1])

\* lines 647-648 and 699-700: the extreme price seen by the exit checks
UpdateExtreme(trade, price) ==
    IF trade.bias = "bullish"
    THEN (IF trade.highest_price = None \/ price > trade.highest_price[1]
          THEN [trade EXCEPT !.highest_price = Some(price)] ELSE trade)
    ELSE (IF trade.lowest_price = None \/ price < trade.lowest_price[1]
          THEN [trade EXCEPT !.lowest_price = Some(price)] ELSE trade)

Extreme(trade) ==
    IF trade.bias = "bullish" THEN trade.highest_price[1] ELSE trade.lowest_price[1]

\* an [EXIT] report on the console followed by update_risk_state(pnl); exits
\* is the sequence of the reports printed in the latest iteration of the
\* polling loop, each with the time t of the exit check that printed it
Report(cl, trade, reason, n, pnl, t) ==
    [update_risk_state(cl, pnl) EXCEPT
        !.exits = Append(@, [order_id |-> trade.order_id, reason |-> reason,
                             contracts |-> n, pnl |-> pnl, time |-> t])]

Closed(cl, trade, reason, n, pnl, t) ==
    [cl |-> Report(cl, trade, reason, n, pnl, t), keep |-> FALSE, trade |-> trade]
Kept(cl, trade) == [cl |-> cl, keep |-> TRUE, trade |-> trade]

\* a trade that is never closed for its age
NoTimeLimit(trade, t) == FALSE

\* a time limit of two hours
TimeLimitTwoHours(trade, t) == t - trade.open_time > 2 * TIME_LIMIT_MINUTES

\* lines 630-631: time_in_trade > 3600
TimeLimitReached(trade, t) == t - trade.open_time > TIME_LIMIT_MINUTES

\* a stop that is never hit
NeverStopped(trade, price) == FALSE

\* lines 651 and 703: the stop-loss test
StopHit(trade, price) ==
    IF trade.bias = "bullish" THEN price <= trade.stop ELSE price >= trade.stop

\* a take at the target that does not look at partial_taken
PartialTakeAgain(cl, trade, price, t) ==
    LET reached == IF trade.bias = "bullish" THEN price >= trade.tp ELSE price <= trade.tp
        contracts_to_close == (trade.contracts * 3) \div 4
    IN  IF reached /\ contracts_to_close > 0
        THEN [cl |-> Report(cl, trade, "take_profit", contracts_to_close,
                            ClosePnl(trade, price, contracts_to_close), t),
              trade |-> [trade EXCEPT
                  !.partial_taken = ~@,
                  !.contracts_remaining = trade.contracts - contracts_to_close,
                  !.trailing_stop_active = TRUE,
                  !.trailing_stop_price =
                      Some(IF trade.bias = "bullish" THEN price - TRAIL_DISTANCE
                           ELSE price + TRAIL_DISTANCE)]]
        ELSE [cl |-> cl, trade |-> trade]

\* lines 660-677 and 712-729: the 75% take at the target
PartialTake(cl, trade, price, t) ==
    LET reached == IF trade.bias = "bullish" THEN price >= trade.tp ELSE price <= trade.tp
        contracts_to_close == (trade.contracts * 3) \div 4
    IN  IF reached /\ ~trade.partial_taken /\ contracts_to_close > 0
        THEN [cl |-> Report(cl, trade, "take_profit", contracts_to_close,
                            ClosePnl(trade, price, contracts_to_close), t),
              trade |-> [trade EXCEPT
                  !.partial_taken = TRUE,
                  !.contracts_remaining = trade.contracts - contracts_to_close,
                  !.trailing_stop_active = TRUE,
                  !.trailing_stop_price =
                      Some(IF trade.bias = "bullish" THEN price - TRAIL_DISTANCE
                           ELSE price + TRAIL_DISTANCE)]]
        ELSE [cl |-> cl, trade |-> trade]

\* lines 679-694 and 731-746: ratchet, then exit on a touch; the P&L uses
\* contracts_remaining as read at the top of the loop body (line 627)
TrailingStep(cl, trade, price, contracts_remaining, t) ==
    IF ~trade.trailing_stop_active THEN Kept(cl, trade)
    ELSE LET t1 == [trade EXCEPT !.trailing_stop_price = Some(Ratchet(trade, Extreme(trade), price))]
             hit == IF trade.bias = "bullish" THEN price <= t1.trailing_stop_price[1]
                    ELSE price >= t1.trailing_stop_price[1]
         IN  IF hit THEN Closed(cl, t1, "trailing_stop", contracts_remaining,
                                ClosePnl(t1, price, contracts_remaining), t)
             ELSE Kept(cl, t1)

\* the body of the loop over open trades, lines 622-746
CheckTrade(cl, trade, price, t) ==
    LET contracts_remaining == trade.contracts_remaining
    IN  IF TimeLimitReached(trade, t)
        THEN Closed(cl, trade, "time_limit", contracts_remaining,
                    ClosePnl(trade, price, contracts_remaining), t)
        ELSE LET t1 == UpdateExtreme(trade, price)
             IN  IF StopHit(t1, price)
                 THEN Closed(cl, t1, "stop_loss", contracts_remaining,
                             ClosePnl(t1, price, contracts_remaining), t)
                 ELSE LET p == PartialTake(cl, t1, price, t)
                      IN  TrailingStep(p.cl, p.trade, price, contracts_remaining, t)

\* the loop over list(self.open_trades): cl carries the risk state, kept the
\* trades that stay open
RECURSIVE CheckTrades(_, _, _, _, _)
CheckTrades(cl, todo, kept, price, t) ==
    IF todo = <<>> THEN [cl EXCEPT !.open_trades = kept]
    ELSE LET r == CheckTrade(cl, Head(todo), price, t)
         IN  CheckTrades(r.cl, Tail(todo),
                         IF r.keep THEN Append(kept, r.trade) ELSE kept, price, t)

\* check_open_trades(now)
check_open_trades(cl, t) ==
    IF cl.bars_df = None THEN cl
    ELSE CheckTrades(cl, cl.open_trades, <<>>, cl.bars_df[1], t)

---------------------------------------------------------------------------
(* The polling loop and its environment *)

\* lines 338-340: the date rollover at the top of an iteration
Rollover(cl, t) ==
    IF Date(t) # cl.today THEN reset_daily([cl EXCEPT !.today = Date(t)]) ELSE cl

\* one iteration of run_forever, lines 336-352; fetch is what fetch_latest_bars
\* does (raises, returns fewer than 10 bars, returns the window), resp what
\* place_order does.  The result carries how run_signals_on_bars ended.
Iteration(cl, t, bars, fetch, resp) ==
    LET c1 == [Rollover(cl, t) EXCEPT !.exits = <<>>]
    IN  IF fetch = "error"
        THEN [cl |-> c1, outcome |-> "fetch_error", session |-> None, raised |-> TRUE]
        ELSE IF fetch = "few"
        THEN [cl |-> check_open_trades(c1, t), outcome |-> "not_enough_bars",
              session |-> None, raised |-> FALSE]
        ELSE LET c2 == [c1 EXCEPT !.bars_df = Some(bars.close)]
                 session == get_current_session(t)
             IN  IF session = None
                 THEN [cl |-> check_open_trades(c2, t), outcome |-> "no_session",
                       session |-> None, raised |-> FALSE]
                 ELSE LET r == run_signals_on_bars(c2, session[1], t, bars, resp)
                      IN  [cl |-> IF r.raised THEN r.cl ELSE check_open_trades(r.cl, t),
                           outcome |-> r.outcome, session |-> session,
                           raised |-> r.raised]

\* an exception that leaves the loop: the process ends
Propagate(r) == IF r.raised THEN "crashed" ELSE r.outcome

\* lines 353-356: except Exception prints the error and the loop goes on to
\* the sleep; r is how the body of the try ended
ExceptClause(r) == r.outcome

\* the clock values of a run
Instants(pl) ==
    (CASE pl = "morning" -> MorningMinutes
       [] pl = "midday" -> MiddayMinutes
       [] pl = "evening" -> EveningMinutes) \cup
    {d * 1440 + m : d \in 1..(MaxDay - 1), m \in LaterDayMinutes}

HasNextInstant(pl, t) == \E u \in Instants(pl) : u > t

NextInstant(pl, t) ==
    LET later == {u \in Instants(pl) : u > t}
    IN  CHOOSE u \in later : \A v \in later : u <= v

\* a formation interval of session s ends in (t, u]
FormationEndsIn(s, t, u) ==
    \E d \in {Date(t), Date(u)} :
        t < d * 1440 + FormationEnd(s) /\ d * 1440 + FormationEnd(s) <= u

\* the bar source when the process starts at the opening of a trading
\* window: the last bar is the last one of the formation interval, which
\* had its bars; yesterday's adr formation had them too
InitMarket(s) ==
    [bar_time |-> FormationEnd(s), close |-> RangeBase(s) + 100,
     conf |-> [x \in Sessions |-> None],
     formed |-> [x \in Sessions |-> FormationEnd(x) <= FormationEnd(s)],
     formed_prev |-> TRUE]

\* the bar source after the clock has moved from t to u: formation intervals
\* that ended on the way have at least 5 bars (valid) or not; at a date change
\* the per-date results start afresh
MarketAt(m, t, u, valid) ==
    LET newday == Date(u) # Date(t)
    IN  [m EXCEPT
            !.formed_prev = IF newday THEN m.formed["adr"] ELSE @,
            !.formed = [s \in Sessions |->
                           IF FormationEndsIn(s, t, u) THEN valid
                           ELSE IF newday THEN FALSE ELSE m.formed[s]],
            !.conf = IF newday THEN [s \in Sessions |-> None] ELSE @]

\* a bar with timestamp t and the given close is appended to the series
AppendBar(m, t, close) ==
    [m EXCEPT !.bar_time = t, !.close = close,
              !.conf = [s \in Sessions |-> FeedConfirmation(m, s, t, close)]]

\* whether the formation interval that ends on the way from t to u has at
\* least 5 bars: open when there is one
ValidChoices(t, u) ==
    IF \E s \in Sessions : FormationEndsIn(s, t, u) THEN BOOLEAN ELSE {TRUE}

\* the loop sleeps (after at least one iteration since the last bar); time
\* passes to the next instant, at which a 5-minute bar closes
NewBar ==
    /\ outcome # "crashed"
    /\ polls > 0
    /\ HasNextInstant(plan, now)
    /\ now' = NextInstant(plan, now)
    /\ \E valid \in ValidChoices(now, now'), close \in PricesAt(now') :
          mkt' = AppendBar(MarketAt(mkt, now, now', valid), now' - 5, close)
    /\ polls' = 0
    /\ outcome' = "idle"
    /\ UNCHANGED <<plan, c, lossHit, inp, out>>

\* what place_order can do when the iteration reaches it
Responses(cl, t, bars, fetch) ==
    IF Iteration(cl, t, bars, fetch, "accepted").outcome = "accepted"
    THEN {"accepted", "failed", "error"} ELSE {"accepted"}

\* one iteration of the polling loop
Poll ==
    /\ outcome # "crashed"
    /\ polls < MaxPollsPerBar
    /\ polls' = polls + 1
    /\ \E fetch \in {"ok", "few", "error"} :
       \E resp \in Responses(c, now, mkt, fetch) :
          LET r == Iteration(c, now, mkt, fetch, resp)
              hit0 == IF Date(now) # c.today THEN FALSE ELSE lossHit
          IN  /\ c' = r.cl
              /\ outcome' = ExceptClause(r)
              /\ lossHit' = (hit0 \/ r.cl.daily_pnl <= 0 - max_daily_loss)
    /\ UNCHANGED <<now, mkt, plan, inp, out>>

\* the date datetime.now(pytz.utc).date() gives at Eastern time t (UTC-5)
UtcDate(t) == Date(t + 300)

\* the process starts as the odr or the adr trading window opens
Init ==
    /\ plan \in Plans
    /\ now = IF plan = "evening" THEN TradingStart("adr") ELSE TradingStart("odr")
    /\ mkt = InitMarket(IF plan = "evening" THEN "adr" ELSE "odr")
    /\ polls = 0
    /\ c = InitClient(UtcDate(now))
    /\ outcome = "idle"
    /\ lossHit = FALSE
    /\ inp = None
    /\ out = None

Next == NewBar \/ Poll

Spec == Init /\ [][Next]_vars

---------------------------------------------------------------------------
(* Position sizing on its own: the two calculate_position_size functions   *)
(* applied to an entry, a stop and a risk state                            *)

\* stops lie up to this many ticks on either side of the lower entry
MaxStopTicks == 6
\* and one stop lies this many ticks away (risk per contract over $240)
WideStopTicks == 200

\* entries: a level, and the first odr entry of the engine above
SizeEntries == {1200, 1360}
SizeStops == {1200 + 10 * k : k \in (0 - MaxStopTicks)..MaxStopTicks} \cup {1200 - 10 * WideStopTicks}
\* account_balance_virtual: negative and zero after losses, the initial one, grown
SizeBalances == {0 - 380, 0, 9880, 16000, 24000}
\* the values update_risk_state gives current_risk_percent
SizeRiskPercents == {10, 15, 20}

SizeInit ==
    /\ plan = "sizing"
    /\ now = TradingStart("odr")
    /\ mkt = InitMarket("odr")
    /\ polls = 0
    /\ c = InitClient(UtcDate(now))
    /\ outcome = "idle"
    /\ lossHit = FALSE
    /\ inp \in [entry : SizeEntries, stop : SizeStops,
                balance : SizeBalances, risk_percent : SizeRiskPercents]
    /\ out = [live |-> None, backtest |-> None]

\* the engine sizes a position: self.calculate_position_size(entry, stop) on a
\* client with the given virtual balance and current_risk_percent
SizeLive ==
    /\ out.live = None
    /\ out' = [out EXCEPT !.live =
                  Some(calculate_position_size(inp.balance, inp.entry, inp.stop))]
    /\ UNCHANGED <<now, mkt, plan, polls, c, outcome, lossHit, inp>>

\* the backtest sizes the same position
SizeBacktest ==
    /\ out.backtest = None
    /\ out' = [out EXCEPT !.backtest =
                  Some(backtest_calculate_position_size(inp.entry, inp.stop, inp.balance))]
    /\ UNCHANGED <<now, mkt, plan, polls, c, outcome, lossHit, inp>>

SizeNext == SizeLive \/ SizeBacktest

SizeSpec == SizeInit /\ [][SizeNext]_vars

---------------------------------------------------------------------------
(* RangeModel and ConfirmationDetector: model_logic.py, on series of bars. *)
(* A bar is [t, open, high, low, close]; a series (df) is a sequence of    *)
(* bars in increasing t; a missing value (NaN, NaT, None) is None.         *)

MaxOf(S) == CHOOSE x \in S : \A y \in S : x >= y
MinOf(S) == CHOOSE x \in S : \A y \in S : x <= y

Column(bars, f(_)) == {f(bars[i]) : i \in 1..Len(bars)}

\* the dates of df.groupby('date')
DatesOf(df) == {Date(df[i].t) : i \in 1..Len(df)}
DayData(df, date) == SelectSeq(df, LAMBDA b : Date(b.t) = date)

\* lines 88-89
body_high(b) == Max(b.open, b.close)
body_low(b) == Min(b.open, b.close)

\* a DR high taken from the closes
HighestClose(session_data) == MaxOf(Column(session_data, LAMBDA b : b.close))

\* lines 81-82
DrHigh(session_data) == MaxOf(Column(session_data, LAMBDA b : b.high))
DrLow(session_data) == MinOf(Column(session_data, LAMBDA b : b.low))

\* compute_boundaries for one session and one date group, lines 58-110
compute_boundaries(df, session, date) ==
    LET day_data == DayData(df, date)
        session_data == SelectSeq(day_data, LAMBDA b :
                            /\ TimeOfDay(b.t) >= FormationStart(session)
                            /\ TimeOfDay(b.t) <= FormationEnd(session))
    IN  IF Len(session_data) >= MIN_FORMATION_BARS
        THEN Some([dr_high |-> DrHigh(session_data),
                   dr_low |-> DrLow(session_data),
                   idr_high |-> MaxOf(Column(session_data, body_high)),
                   idr_low |-> MinOf(Column(session_data, body_low)),
                   dr_end |-> session_data[Len(session_data)].t])
        ELSE None

\* lines 187-195: the trading interval of a date in absolute time
trading_start_time(session, date) == date * 1440 + TradingStart(session)
trading_end_time(session, date) ==
    IF session = "adr" THEN (date + 1) * 1440 + TradingEnd(session)
    ELSE date * 1440 + TradingEnd(session)

\* a trading mask without its upper end
FromTradingStart(t, session, date) == t >= trading_start_time(session, date)

\* trading_mask, lines 198-201
InTradingWindow(t, session, date) ==
    t >= trading_start_time(session, date) /\ t <= trading_end_time(session, date)

\* a choice that takes the bullish breach whenever there is one
PreferBullish(first_bullish, first_bearish) ==
    IF first_bullish # None THEN Some([time |-> first_bullish[1], bias |-> "bullish"])
    ELSE IF first_bearish # None THEN Some([time |-> first_bearish[1], bias |-> "bearish"])
    ELSE None

\* lines 222-233: which breach came first
PickConfirmation(first_bullish, first_bearish) ==
    IF first_bullish # None /\ first_bearish # None
    THEN (IF first_bullish[1] < first_bearish[1]
          THEN Some([time |-> first_bullish[1], bias |-> "bullish"])
          ELSE Some([time |-> first_bearish[1], bias |-> "bearish"]))
    ELSE IF first_bullish # None THEN Some([time |-> first_bullish[1], bias |-> "bullish"])
    ELSE IF first_bearish # None THEN Some([time |-> first_bearish[1], bias |-> "bearish"])
    ELSE None

\* a detector that reports the latest breach of the trading interval
DetectLatestBreach(df, bounds, session, date) ==
    IF bounds = None THEN None
    ELSE LET b == bounds[1]
             breaches == SelectSeq(DayData(df, date), LAMBDA x :
                             /\ InTradingWindow(x.t, session, date)
                             /\ x.t > b.dr_end
                             /\ (x.close > b.dr_high \/ x.close < b.dr_low))
         IN  IF breaches = <<>> THEN None
             ELSE LET last == breaches[Len(breaches)]
                  IN  Some([time |-> last.t,
                            bias |-> IF last.close > b.dr_high THEN "bullish" ELSE "bearish"])

\* detect_confirmations for one session and one date group, lines 166-237;
\* bounds is what compute_boundaries gave for that session and date
detect_confirmations(df, bounds, session, date) ==
    IF bounds = None THEN None
    ELSE LET b == bounds[1]
             day_data == DayData(df, date)
             trading_data == SelectSeq(day_data, LAMBDA x : InTradingWindow(x.t, session, date))
             post_dr_trading_data == SelectSeq(trading_data, LAMBDA x : x.t > b.dr_end)
             bullish == SelectSeq(post_dr_trading_data, LAMBDA x : x.close > b.dr_high)
             bearish == SelectSeq(post_dr_trading_data, LAMBDA x : x.close < b.dr_low)
             first_bullish == IF bullish # <<>>
                              THEN Some(MinOf(Column(bullish, LAMBDA x : x.t))) ELSE None
             first_bearish == IF bearish # <<>>
                              THEN Some(MinOf(Column(bearish, LAMBDA x : x.t))) ELSE None
         IN  PickConfirmation(first_bullish, first_bearish)

\* QXSignalGenerator.compute_boundaries and detect_confirmations
\* (signal_module.py:16-26) for one session: the rows of every date
Analyse(df, session) ==
    LET bounds == [d \in DatesOf(df) |-> compute_boundaries(df, session, d)]
    IN  [bounds |-> bounds,
         confirmations |-> [d \in DatesOf(df) |->
                               detect_confirmations(df, bounds[d], session, d)]]

\* the bars compute_boundaries takes the DR/IDR of a session and date from,
\* model_logic.py lines 71-77: both ends of the formation interval included
FormationBars(df, session, date) ==
    SelectSeq(DayData(df, date), LAMBDA b :
        /\ TimeOfDay(b.t) >= FormationStart(session)
        /\ TimeOfDay(b.t) <= FormationEnd(session))

\* get_session_window_bars(bars_df, session, now_est): the bars of the
\* current date from the start of the formation interval up to, and not
\* including, its end
get_session_window_bars(bars_df, session, t) ==
    SelectSeq(bars_df, LAMBDA b :
        /\ Date(b.t) = Date(t)
        /\ TimeOfDay(b.t) >= FormationStart(session)
        /\ TimeOfDay(b.t) < FormationEnd(session))

---------------------------------------------------------------------------
(* The range functions on their own: bars of one session's day arrive one  *)
(* by one and the series is analysed after each                            *)

\* bars that the feed may leave out of a series
MaxMissingBars == 1

\* the times a bar can have: around the formation interval (one before it,
\* both inclusive ends), around the trading interval (both inclusive ends,
\* one after it), and for adr one after midnight
RangeSlots(s) ==
    LET f == FormationStart(s)
        e == trading_end_time(s, 0)
    IN  <<f - 5, f, f + 5, f + 10, f + 50, f + 55, TradingStart(s), TradingStart(s) + 5>>
        \o (IF s = "adr" THEN <<1440 + 30>> ELSE <<>>)
        \o <<e, e + 5>>

BarShape(o, h, l, cl) == [open |-> o, high |-> h, low |-> l, close |-> cl]

\* bars up to the end of the formation interval: a rising bar with wicks on
\* both sides and a falling one with a larger body
FormationShapes == {BarShape(1000, 1200, 900, 1100), BarShape(1150, 1180, 950, 980)}
\* later bars: closing above every DR high, below every DR low, inside
TradingShapes == {BarShape(1000, 1300, 1000, 1300), BarShape(1000, 1000, 800, 800),
                  BarShape(1000, 1050, 1000, 1050)}

ShapesAt(s, t) == IF t <= FormationEnd(s) THEN FormationShapes ELSE TradingShapes

RangeInit ==
    /\ plan = "range"
    /\ now = 0
    /\ mkt = InitMarket("odr")
    /\ polls = 0
    /\ c = InitClient(UtcDate(now))
    /\ outcome = "idle"
    /\ lossHit = FALSE
    /\ \E s \in Sessions :
          /\ inp = [session |-> s, bars |-> <<>>, slot |-> 1, missing |-> 0]
          /\ out = Analyse(<<>>, s)

\* the next bar arrives and the series is analysed
FeedBar ==
    /\ inp.slot <= Len(RangeSlots(inp.session))
    /\ \E shape \in ShapesAt(inp.session, RangeSlots(inp.session)[inp.slot]) :
          LET bar == [t |-> RangeSlots(inp.session)[inp.slot],
                      open |-> shape.open, high |-> shape.high,
                      low |-> shape.low, close |-> shape.close]
              df == Append(inp.bars, bar)
          IN  /\ inp' = [inp EXCEPT !.bars = df, !.slot = @ + 1]
              /\ out' = Analyse(df, inp.session)
    /\ UNCHANGED <<now, mkt, plan, polls, c, outcome, lossHit>>

\* the feed has no bar for the next time
MissBar ==
    /\ inp.slot <= Len(RangeSlots(inp.session))
    /\ inp.missing < MaxMissingBars
    /\ inp' = [inp EXCEPT !.slot = @ + 1, !.missing = @ + 1]
    /\ UNCHANGED <<now, mkt, plan, polls, c, outcome, lossHit, out>>

RangeNext == FeedBar \/ MissBar

RangeSpec == RangeInit /\ [][RangeNext]_vars

---------------------------------------------------------------------------
(* SignalEngine: signal_module.py.  The confirmations DataFrame is a       *)
(* function from column names to columns, a column a function from the     *)
(* timestamps of the index to values.                                      *)

\* the columns detect_confirmations creates, model_logic.py:157-159 and
\* 236-237: every bar of a date carries the confirmation of its date
ConfirmationFrame(df) ==
    LET index == {df[i].t : i \in 1..Len(df)}
        conf(s, t) == Analyse(df, s).confirmations[Date(t)]
    IN  [col \in {<<s, f>> : s \in Sessions, f \in {"confirmation_time", "confirmation_bias"}} |->
            [t \in index |->
                IF conf(col[1], t) = None THEN None
                ELSE IF col[2] = "confirmation_time" THEN Some(conf(col[1], t)[1].time)
                ELSE Some(conf(col[1], t)[1].bias)]]

\* truth value of a cell
Truthy(v) == v # None

\* the order of the two loops of get_signal_for_datetime
SignalOrder ==
    <<<<"rdr", "bullish">>, <<"rdr", "bearish">>, <<"odr", "bullish">>,
      <<"odr", "bearish">>, <<"adr", "bullish">>, <<"adr", "bearish">>>>

\* get_signal_for_datetime(dt), signal_module.py:53-69, on self.confirmations
get_signal_for_datetime(confirmations, dt) ==
    IF confirmations = None THEN None
    ELSE LET frame == confirmations[1]
             conf_col(k) == <<SignalOrder[k][1], "confirmed_" \o SignalOrder[k][2]>>
             found == {k \in 1..Len(SignalOrder) :
                          /\ conf_col(k) \in DOMAIN frame
                          /\ Truthy(frame[conf_col(k)][dt])}
         IN  IF found = {} THEN None
             ELSE LET k == MinOf(found)
                  IN  Some([datetime |-> dt, session |-> SignalOrder[k][1],
                            bias |-> SignalOrder[k][2]])

\* a series with the five bars of a session's formation interval
FormedSeries(s) ==
    [i \in 1..MIN_FORMATION_BARS |->
        [t |-> RangeSlots(s)[i + 1], open |-> 1000, high |-> 1200, low |-> 900, close |-> 1100]]

\* index in RangeSlots of the first bar after the formation interval
FirstTradingSlot == MIN_FORMATION_BARS + 2

SignalInit ==
    /\ plan = "signal"
    /\ now = 0
    /\ mkt = InitMarket("odr")
    /\ polls = 0
    /\ c = InitClient(UtcDate(now))
    /\ outcome = "idle"
    /\ lossHit = FALSE
    /\ \E s \in Sessions :
          /\ inp = [session |-> s, bars |-> FormedSeries(s), slot |-> FirstTradingSlot]
          /\ out = [confirmations |-> None, signal |-> None]

\* a bar of the trading interval arrives and detect_confirmations runs on
\* the series (signal_module.py:21-26)
SignalFeedBar ==
    /\ inp.slot <= Len(RangeSlots(inp.session))
    /\ \E shape \in TradingShapes :
          LET bar == [t |-> RangeSlots(inp.session)[inp.slot],
                      open |-> shape.open, high |-> shape.high,
                      low |-> shape.low, close |-> shape.close]
              df == Append(inp.bars, bar)
          IN  /\ inp' = [inp EXCEPT !.bars = df, !.slot = @ + 1]
              /\ out' = [confirmations |-> Some(ConfirmationFrame(df)), signal |-> None]
    /\ UNCHANGED <<now, mkt, plan, polls, c, outcome, lossHit>>

\* a caller asks for the signal at the timestamp of a bar of the series
GetSignal ==
    /\ \E i \in 1..Len(inp.bars) :
          out' = [out EXCEPT !.signal =
                     Some([dt |-> inp.bars[i].t,
                           result |-> get_signal_for_datetime(out.confirmations, inp.bars[i].t)])]
    /\ UNCHANGED <<now, mkt, plan, polls, c, outcome, lossHit, inp>>

SignalNext == SignalFeedBar \/ GetSignal

SignalSpec == SignalInit /\ [][SignalNext]_vars

---------------------------------------------------------------------------
(* The entry model on its own: entry, stop and target of the engine for an *)
(* IDR, an idr_std and a bias                                              *)

\* the IDR is up to this many ticks wide (24 ticks = 6 points)
MaxRangeTicks == 24

\* idr_low 4492.00; idr_std 0, 1.5, 1.8 and 2 points
LevelIdrLows == {179680}
LevelStds == {0, 60, 72, 80}

LevelsInit ==
    /\ plan = "levels"
    /\ now = 0
    /\ mkt = InitMarket("odr")
    /\ polls = 0
    /\ c = InitClient(UtcDate(now))
    /\ outcome = "idle"
    /\ lossHit = FALSE
    /\ \E low \in LevelIdrLows, k \in 0..MaxRangeTicks, sd \in LevelStds,
          bias \in {"bullish", "bearish"} :
          inp = [bias |-> bias,
                 bounds |-> [idr_low |-> low, idr_high |-> low + 10 * k,
                             idr_std |-> sd]]
    /\ out = None

\* run_signals_on_bars computes the levels of the order, lines 476-513
ComputeLevels ==
    /\ out = None
    /\ out' = Some([entry_price |-> EntryPrice(inp.bias, inp.bounds),
                    stop_loss |-> StopLoss(inp.bias, inp.bounds),
                    take_profit |-> TakeProfit(inp.bias, inp.bounds)])
    /\ UNCHANGED <<now, mkt, plan, polls, c, outcome, lossHit, inp>>

\* the levels are those of the trade the engine then records, lines 558-562
RecordLevels ==
    /\ out # None
    /\ "trade" \notin DOMAIN out[1]
    /\ out' = Some([entry_price |-> out[1].entry_price, stop_loss |-> out[1].stop_loss,
                    take_profit |-> out[1].take_profit,
                    trade |-> NewTrade("odr", inp.bias, inp.bounds, 1, now)])
    /\ UNCHANGED <<now, mkt, plan, polls, c, outcome, lossHit, inp>>

LevelsNext == ComputeLevels \/ RecordLevels

LevelsSpec == LevelsInit /\ [][LevelsNext]_vars

---------------------------------------------------------------------------
(* The risk state under a sequence of closures: update_risk_state is     *)
(* called once per closure by check_open_trades.                          *)

\* the closures of a run
MaxRiskCalls == 5
\* realized P&L of a closure, in 1/8 dollar: a loss, nothing, gains
RiskPnls == {0 - 400, 0, 400, 1200}

RiskInit ==
    /\ plan = "risk"
    /\ now = TradingStart("odr")
    /\ mkt = InitMarket("odr")
    /\ polls = 0
    /\ c = InitClient(UtcDate(now))
    /\ outcome = "idle"
    /\ lossHit = FALSE
    /\ inp = None
    /\ out = None

\* a trade is closed in full (time limit, stop, trailing stop), at a gain or
\* at a loss: self.update_risk_state(pnl)
BookClosure ==
    /\ polls < MaxRiskCalls
    /\ polls' = polls + 1
    /\ \E pnl \in RiskPnls :
          /\ inp' = Some(pnl)
          /\ c' = update_risk_state(c, pnl)
    /\ UNCHANGED <<now, mkt, plan, outcome, lossHit, out>>

\* part of a trade is closed at the target, at a gain:
\* self.update_risk_state(partial_pnl)
BookPartial ==
    /\ polls < MaxRiskCalls
    /\ polls' = polls + 1
    /\ \E pnl \in {x \in RiskPnls : x > 0} :
          /\ inp' = Some(pnl)
          /\ c' = update_risk_state(c, pnl)
    /\ UNCHANGED <<now, mkt, plan, outcome, lossHit, out>>

RiskNext == BookClosure \/ BookPartial

RiskSpec == RiskInit /\ [][RiskNext]_vars

---------------------------------------------------------------------------
(* Properties of position sizing (specification SizeSpec) *)

\* C4: both calculate_position_size functions return at least 1 contract for
\* every entry, stop and balance (zero and negative balances included), and
\* exactly 1 when entry = stop.
SizeAtLeastOne ==
    /\ out.live # None =>
          /\ out.live[1] >= 1
          /\ inp.entry = inp.stop => out.live[1] = 1
    /\ out.backtest # None =>
          /\ out.backtest[1] >= 1
          /\ inp.entry = inp.stop => out.backtest[1] = 1

\* C4 witness: both functions were applied to entry = stop, on a balance
\* that is not positive
SizedDegenerateStop ==
    /\ out.live = Some(1)
    /\ out.backtest = Some(1)
    /\ inp.entry = inp.stop
    /\ inp.balance <= 0

\* C5 (as the specification states it): the live size is
\* max(1, floor(virtual balance * current_risk_percent / risk_per_contract)),
\* risk_per_contract being the stop distance in ticks times the tick value.
SizeFollowsRiskPercent ==
    (out.live # None /\ inp.entry # inp.stop) =>
        out.live[1] = Max(1, (inp.balance * inp.risk_percent) \div
                                 (1000 * Abs(inp.entry - inp.stop)))

---------------------------------------------------------------------------
(* Properties of the engine (specification Spec) *)

\* run_signals_on_bars was called in the iteration that led to this outcome
Invoked(tag) == tag \notin {"idle", "fetch_error", "not_enough_bars", "no_session"}

\* check_open_trades ran at the end of the iteration with a current price
ExitChecked(tag) == tag \in {"skip", "not_enough_bars"}

SameTrades(before, after) ==
    \A j \in 1..Len(after) : \E i \in 1..Len(before) :
        before[i].order_id = after[j].order_id

\* C1: bar-close idempotency.  In every iteration of the polling loop that
\* calls run_signals_on_bars for a session whose last-processed-bar timestamp
\* equals the timestamp of the latest bar, nothing is evaluated: the call
\* ends as a skip, no trade count, guard key or cache entry changes and no
\* trade is opened.  An iteration that does evaluate finds a timestamp other
\* than the last processed one and records it, so a bar timestamp is
\* evaluated at most once per session between daily resets.
BarCloseIdempotent ==
    [][(polls' = polls + 1 /\ Invoked(outcome')) =>
        LET pre == Rollover(c, now)
            s == get_current_session(now)[1]
            stamp == DictGet(pre.last_processed_bar, s)
        IN  /\ stamp = Some(mkt.bar_time) =>
                /\ outcome' = "skip"
                /\ c'.session_trades = pre.session_trades
                /\ c'.last_confirmation_traded = pre.last_confirmation_traded
                /\ c'.last_dr_traded = pre.last_dr_traded
                /\ c'.last_processed_bar = pre.last_processed_bar
                /\ c'.session_cache = pre.session_cache
                /\ SameTrades(pre.open_trades, c'.open_trades)
            /\ outcome' # "skip" =>
                /\ stamp = None \/ stamp[1] < mkt.bar_time
                /\ DictGet(c'.last_processed_bar, s) = Some(mkt.bar_time)]_vars

\* C1 witness: the second iteration on one bar has skipped it, after the
\* first one opened a trade on it
SkippedProcessedBar ==
    /\ outcome = "skip"
    /\ polls = 2
    /\ \E i \in 1..Len(c.open_trades) : c.open_trades[i].open_time = now

LossLimitLatches == lossHit => \A s \in Sessions : ~can_trade(c, s)

\* C6: a trade whose trailing stop is active keeps it active over every step
\* it stays open in, and its trailing_stop_price does not decrease (long) or
\* increase (short).
TrailingStopMonotone ==
    [][\A i \in 1..Len(c.open_trades) : \A j \in 1..Len(c'.open_trades) :
        (/\ c.open_trades[i].order_id = c'.open_trades[j].order_id
         /\ c.open_trades[i].trailing_stop_active) =>
            /\ c'.open_trades[j].trailing_stop_active
            /\ c.open_trades[i].bias = "bullish" =>
                  c'.open_trades[j].trailing_stop_price[1] >=
                      c.open_trades[i].trailing_stop_price[1]
            /\ c.open_trades[i].bias = "bearish" =>
                  c'.open_trades[j].trailing_stop_price[1] <=
                      c.open_trades[i].trailing_stop_price[1]]_vars

\* C6 witness: an exit check has left a long trade open at a price below its
\* highest price, the trailing stop still 5 points under that highest price
LongStopHeldOnPullback ==
    /\ ExitChecked(outcome)
    /\ \E i \in 1..Len(c.open_trades) :
          /\ c.open_trades[i].bias = "bullish"
          /\ c.open_trades[i].trailing_stop_active
          /\ c.bars_df[1] < c.open_trades[i].highest_price[1]

\* C7: every open trade with an active trailing stop has its
\* trailing_stop_price 5 points under its highest_price (long) or 5 points
\* over its lowest_price (short).
TrailingStopAtExtreme ==
    \A i \in 1..Len(c.open_trades) :
        c.open_trades[i].trailing_stop_active =>
            IF c.open_trades[i].bias = "bullish"
            THEN c.open_trades[i].trailing_stop_price =
                     Some(c.open_trades[i].highest_price[1] - 200)
            ELSE c.open_trades[i].trailing_stop_price =
                     Some(c.open_trades[i].lowest_price[1] + 200)

\* C7 witness: an exit check has left a short trade open at a price above
\* its lowest price, with the stop 5 points over that lowest price
ShortStopAtLowestPrice ==
    /\ ExitChecked(outcome)
    /\ \E i \in 1..Len(c.open_trades) :
          /\ c.open_trades[i].bias = "bearish"
          /\ c.open_trades[i].trailing_stop_active
          /\ c.open_trades[i].lowest_price[1] < c.bars_df[1]
          /\ c.open_trades[i].trailing_stop_price[1] = c.open_trades[i].lowest_price[1] + 200
---------------------------------------------------------------------------
(* Properties of the range functions (specification RangeSpec) *)

WellFormed(bars) ==
    \A i \in 1..Len(bars) :
        /\ bars[i].low <= Min(bars[i].open, bars[i].close)
        /\ Max(bars[i].open, bars[i].close) <= bars[i].high

\* the bars of the series inside the trading interval of a date and strictly
\* after the end of its range
Eligible(d) ==
    {i \in 1..Len(inp.bars) :
        /\ inp.bars[i].t >= d * 1440 + TradingStart(inp.session)
        /\ inp.bars[i].t <= (IF inp.session = "adr" THEN d + 1 ELSE d) * 1440
                                + TradingEnd(inp.session)
        /\ inp.bars[i].t > out.bounds[d][1].dr_end}

ClosesAbove(d, i) == inp.bars[i].close > out.bounds[d][1].dr_high
ClosesBelow(d, i) == inp.bars[i].close < out.bounds[d][1].dr_low

\* C8: wherever compute_boundaries yields boundaries over well-formed bars,
\* the IDR lies within the DR and idr_low <= idr_high.
IdrWithinDr ==
    \A d \in DOMAIN out.bounds :
        (out.bounds[d] # None /\ WellFormed(inp.bars)) =>
            /\ out.bounds[d][1].idr_high <= out.bounds[d][1].dr_high
            /\ out.bounds[d][1].idr_low >= out.bounds[d][1].dr_low
            /\ out.bounds[d][1].idr_low <= out.bounds[d][1].idr_high

\* C8 witness: boundaries of a formation interval whose wicks reach beyond
\* the bodies on both sides
BoundariesWithWicks ==
    \E d \in DOMAIN out.bounds :
        /\ out.bounds[d] # None
        /\ out.bounds[d][1].idr_high < out.bounds[d][1].dr_high
        /\ out.bounds[d][1].idr_low > out.bounds[d][1].dr_low
        /\ Len(inp.bars) > MIN_FORMATION_BARS

\* C9: every recorded confirmation of a date is strictly after that date's
\* dr_end (and after the end of the formation interval) and inside the
\* trading interval of the date, both ends included.
ConfirmationInTradingInterval ==
    \A d \in DOMAIN out.confirmations :
        out.confirmations[d] # None =>
            /\ out.bounds[d] # None
            /\ out.confirmations[d][1].time > out.bounds[d][1].dr_end
            /\ out.confirmations[d][1].time > d * 1440 + FormationEnd(inp.session)
            /\ out.confirmations[d][1].time >= d * 1440 + TradingStart(inp.session)
            /\ out.confirmations[d][1].time <=
                  (IF inp.session = "adr" THEN d + 1 ELSE d) * 1440 + TradingEnd(inp.session)

\* C9 witness: a confirmation on the last instant of the trading interval,
\* with a bar after the interval in the series
ConfirmedAtTradingEnd ==
    /\ inp.session # "adr"
    /\ 0 \in DOMAIN out.confirmations
    /\ out.confirmations[0] # None
    /\ out.confirmations[0][1].time = TradingEnd(inp.session)
    /\ inp.bars[Len(inp.bars)].t > TradingEnd(inp.session)

\* C10: per session and date there is one confirmation or none.  A recorded
\* one is the earliest eligible bar that closes beyond the DR; it is bullish
\* exactly when the first close above dr_high precedes the first close below
\* dr_low; none is recorded when no eligible bar closes beyond the DR, and
\* one is recorded when an eligible bar of that date does.
FirstBreachConfirmed ==
    \A d \in DOMAIN out.confirmations :
        LET k == out.confirmations[d]
        IN  /\ k # None =>
                /\ out.bounds[d] # None
                /\ \E i \in Eligible(d) :
                      /\ inp.bars[i].t = k[1].time
                      /\ ClosesAbove(d, i) \/ ClosesBelow(d, i)
                /\ \A j \in Eligible(d) :
                      (ClosesAbove(d, j) \/ ClosesBelow(d, j)) => inp.bars[j].t >= k[1].time
                /\ k[1].bias \in {"bullish", "bearish"}
                /\ k[1].bias = "bullish" <=>
                      \E i \in Eligible(d) :
                          /\ ClosesAbove(d, i)
                          /\ \A j \in Eligible(d) :
                                ClosesBelow(d, j) => inp.bars[i].t < inp.bars[j].t
            /\ (out.bounds[d] = None
                \/ \A i \in Eligible(d) : ~ClosesAbove(d, i) /\ ~ClosesBelow(d, i)) => k = None
            /\ (out.bounds[d] # None
                /\ \E i \in Eligible(d) :
                      /\ Date(inp.bars[i].t) = d
                      /\ ClosesAbove(d, i) \/ ClosesBelow(d, i)) => k # None

\* C10 witness: a bearish confirmation, with a later eligible bar that closes
\* above dr_high
BearishBeforeBullish ==
    \E d \in DOMAIN out.confirmations :
        /\ out.confirmations[d] # None
        /\ out.confirmations[d][1].bias = "bearish"
        /\ \E i \in Eligible(d) :
              ClosesAbove(d, i) /\ inp.bars[i].t > out.confirmations[d][1].time

---------------------------------------------------------------------------
(* Properties of the signal engine (specification SignalSpec) *)

\* C11 (as the specification states it): asked at the timestamp of a
\* recorded confirmation, get_signal_for_datetime returns a signal naming the
\* session and the bias of that confirmation.
SignalNamesConfirmation ==
    (/\ out.signal # None
     /\ out.confirmations # None
     /\ out.confirmations[1][<<inp.session, "confirmation_time">>][out.signal[1].dt]
            = Some(out.signal[1].dt)) =>
        /\ out.signal[1].result # None
        /\ out.signal[1].result[1].session = inp.session
        /\ Some(out.signal[1].result[1].bias) =
              out.confirmations[1][<<inp.session, "confirmation_bias">>][out.signal[1].dt]

---------------------------------------------------------------------------
(* Properties of the entry model (specification LevelsSpec) *)

\* C12: for a bullish confirmation entry = idr_high - 0.20 * range, stop =
\* (idr_high + idr_low)/2 - 2 points and target = idr_high + idr_std; for a
\* bearish one entry = idr_low + 0.20 * range, stop = midpoint + 2 points and
\* target = idr_low - idr_std (prices in 1/40 point, 2 points = 80); the
\* recorded trade carries the same levels.
EntryModelLevels ==
    out # None =>
        LET b == inp.bounds
            range == b.idr_high - b.idr_low
            l == out[1]
        IN  /\ inp.bias = "bullish" =>
                /\ 10 * l.entry_price = 10 * b.idr_high - 2 * range
                /\ 2 * l.stop_loss = b.idr_high + b.idr_low - 2 * 80
                /\ l.take_profit = b.idr_high + b.idr_std
            /\ inp.bias = "bearish" =>
                /\ 10 * l.entry_price = 10 * b.idr_low + 2 * range
                /\ 2 * l.stop_loss = b.idr_high + b.idr_low + 2 * 80
                /\ l.take_profit = b.idr_low - b.idr_std
            /\ "trade" \in DOMAIN l =>
                /\ l.trade.entry = l.entry_price
                /\ l.trade.stop = l.stop_loss
                /\ l.trade.tp = l.take_profit

\* C12 witness: IDR 4498.00/4492.00, bullish: entry 4496.80, stop 4493.00
ScenarioLevels ==
    /\ out # None
    /\ inp.bias = "bullish"
    /\ inp.bounds.idr_high = 179920
    /\ inp.bounds.idr_low = 179680
    /\ out[1].entry_price = 179872
    /\ out[1].stop_loss = 179720

---------------------------------------------------------------------------
(* Properties of the polling loop (specification Spec) *)

\* the body of the try block of the iteration that led to this outcome raised
IterationRaised(tag) == tag \in {"fetch_error", "cache_hit_error"}

\* C13: no failure inside an iteration ends the loop: after every iteration,
\* also one whose fetch or signal evaluation raised, the loop is at its sleep
\* and not terminated.
LoopSurvivesFailures == outcome # "crashed"

\* C13 witness: the loop ran an iteration after one that raised.  The
\* second iteration on a bar skipped it, so the first one processed it; the
\* session's boundaries were cached before this bar (its trade is older), so
\* that first iteration raised on the cache hit.
NextIterationAfterFailure ==
    /\ polls = 2
    /\ outcome = "skip"
    /\ get_current_session(now) # None
    /\ \E i \in 1..Len(c.open_trades) :
          /\ c.open_trades[i].session = get_current_session(now)[1]
          /\ c.open_trades[i].open_time < now

\* C14: an iteration whose order submission returned no order id or raised
\* adds no trade to the open set, raises the session's trade count by exactly
\* one, sets last_confirmation_traded and last_dr_traded for the confirmation
\* and writes one FAILED/ERROR row to the trade log.
FailedOrderConsumesSlot ==
    [][(polls' = polls + 1 /\ outcome' \in {"failed", "error"}) =>
        LET pre == Rollover(c, now)
            s == get_current_session(now)[1]
            conf == mkt.conf[s][1]
            b == c'.session_cache[<<s, SessionDate(s, now)>>]
        IN  /\ SameTrades(pre.open_trades, c'.open_trades)
            /\ c'.session_trades =
                  [pre.session_trades EXCEPT ![s] = pre.session_trades[s] + 1]
            /\ DictGet(c'.last_confirmation_traded, s) = Some(conf.time)
            /\ DictGet(c'.last_dr_traded, <<s, Date(now)>>) =
                  Some(<<b.dr_high, b.dr_low, conf.bias>>)
            /\ Len(c'.trade_log) = Len(pre.trade_log) + 1
            /\ SubSeq(c'.trade_log, 1, Len(pre.trade_log)) = pre.trade_log
            /\ c'.trade_log[Len(c'.trade_log)].session = s
            /\ c'.trade_log[Len(c'.trade_log)].order_id =
                  (IF outcome' = "failed" THEN "FAILED" ELSE "ERROR")]_vars

\* C14 witness: a submission has raised; the slot is consumed, the log has
\* its ERROR row and no trade of the session is open
OrderErrorRecorded ==
    /\ outcome = "error"
    /\ c.trade_log # <<>>
    /\ c.trade_log[Len(c.trade_log)].order_id = "ERROR"
    /\ c.session_trades[c.trade_log[Len(c.trade_log)].session] = 1
    /\ \A i \in 1..Len(c.open_trades) :
          c.open_trades[i].session # c.trade_log[Len(c.trade_log)].session

\* C15: an iteration submits an order or consumes a slot of a session only
\* when the session's confirmation is at most 10 minutes older than now.
OnlyFreshConfirmationsTrade ==
    [][(polls' = polls + 1 /\ Invoked(outcome')) =>
        LET pre == Rollover(c, now)
            s == get_current_session(now)[1]
        IN  (\/ outcome' \in {"accepted", "failed", "error", "move_missed"}
             \/ c'.session_trades # pre.session_trades
             \/ ~SameTrades(pre.open_trades, c'.open_trades)
             \/ c'.trade_log # pre.trade_log) =>
                /\ mkt.conf[s] # None
                /\ now - mkt.conf[s][1].time <= 10]_vars

\* C15 witness: an evaluation found the session's confirmation more than 10
\* minutes old and left the session without a consumed slot
StaleConfirmationLeft ==
    /\ outcome = "stale"
    /\ LET s == get_current_session(now)[1]
       IN  /\ now - mkt.conf[s][1].time > 10
           /\ c.session_trades[s] = 0
           /\ DictGet(c.last_confirmation_traded, s) = None

\* C16: an order-submission attempt is made for a session only when
\* last_confirmation_traded of the session differs from the confirmation
\* time, and it sets the key to that time; nothing else changes the key or
\* the log.  Hence at most one attempt per session and confirmation between
\* daily resets: with the key at the confirmation time an evaluation ends
\* without an order.
OneAttemptPerConfirmation ==
    [][(polls' = polls + 1 /\ Invoked(outcome')) =>
        LET pre == Rollover(c, now)
            s == get_current_session(now)[1]
            attempt == outcome' \in {"accepted", "failed", "error"}
            traded == /\ mkt.conf[s] # None
                      /\ DictGet(pre.last_confirmation_traded, s) = Some(mkt.conf[s][1].time)
        IN  /\ attempt =>
                /\ mkt.conf[s] # None
                /\ ~traded
                /\ DictGet(c'.last_confirmation_traded, s) = Some(mkt.conf[s][1].time)
                /\ Len(c'.trade_log) = Len(pre.trade_log) + 1
            /\ ~attempt =>
                /\ c'.last_confirmation_traded = pre.last_confirmation_traded
                /\ c'.trade_log = pre.trade_log
                /\ SameTrades(pre.open_trades, c'.open_trades)]_vars

\* C16 witness: the confirmation of a session was traded, and a later
\* evaluation on a new bar has ended without another order
TradedConfirmationSeenAgain ==
    /\ Invoked(outcome)
    /\ outcome \notin {"accepted", "failed", "error", "skip"}
    /\ LET s == get_current_session(now)[1]
       IN  /\ mkt.conf[s] # None
           /\ DictGet(c.last_confirmation_traded, s) = Some(mkt.conf[s][1].time)
           /\ DictGet(c.last_processed_bar, s) = Some(mkt.bar_time)
           /\ c.session_trades[s] = 1
           /\ Len(c.trade_log) = 1

\* the exit rules of check_open_trades have nothing to close at the given
\* price and time: the trade stays open and no P&L is realized
ExitRulesApplied(cl, trade, price, t) ==
    LET r == CheckTrade(cl, trade, price, t)
    IN  r.keep /\ r.cl = cl

\* C17 (as the specification states it): every iteration of the polling
\* loop, however its fetch and its signal evaluation ended, has applied the
\* exit rules to every open trade: after it, no open trade is left that the
\* rules would close, wholly or in part, at the current price and time.
ExitRulesEveryIteration ==
    [][(polls' = polls + 1 /\ c'.bars_df # None) =>
        \A i \in 1..Len(c'.open_trades) :
            ExitRulesApplied(c', c'.open_trades[i], c'.bars_df[1], now)]_vars

\* the [EXIT] reports printed by the iteration for the order
NewReports(order_id) ==
    {k \in 1..Len(c'.exits) : c'.exits[k].order_id = order_id}

\* check_open_trades ran in the iteration that led to this outcome
ExitCheckRan(tag) == ~IterationRaised(tag)

\* C18: in every iteration whose exit check runs with a trade open for more
\* than 3600 seconds, the trade leaves the open set and exactly one report is
\* printed for it: the time-limit exit of all contracts_remaining at the
\* current price, whatever its stop, target and trailing stop are.
TimeLimitClosesAll ==
    [][(polls' = polls + 1 /\ ExitCheckRan(outcome') /\ c'.bars_df # None) =>
        LET pre == Rollover(c, now)
            price == c'.bars_df[1]
        IN  \A i \in 1..Len(pre.open_trades) :
                LET tr == pre.open_trades[i]
                IN  (now - tr.open_time) * 60 > 3600 =>
                        /\ \A j \in 1..Len(c'.open_trades) :
                               c'.open_trades[j].order_id # tr.order_id
                        /\ Cardinality(NewReports(tr.order_id)) = 1
                        /\ \A k \in NewReports(tr.order_id) :
                               /\ c'.exits[k].reason = "time_limit"
                               /\ c'.exits[k].contracts = tr.contracts_remaining
                               /\ c'.exits[k].pnl =
                                      (IF tr.bias = "bullish" THEN price - tr.entry
                                       ELSE tr.entry - price) * tr.contracts_remaining]_vars

\* C18 witness: the last report is the time-limit exit of a long trade, all
\* its contracts closed at a price at or below its stop, in the iteration
\* that has just ended
TimeLimitBeforeStop ==
    /\ polls > 0
    /\ ExitCheckRan(outcome)
    /\ c.exits # <<>>
    /\ c.bars_df # None
    /\ LET e == c.exits[Len(c.exits)]
           key == <<e.order_id[1], Date(now)>>
       IN  /\ e.reason = "time_limit"
           /\ e.time = now
           /\ \A j \in 1..Len(c.open_trades) : c.open_trades[j].order_id # e.order_id
           /\ now - e.order_id[2] > TIME_LIMIT_MINUTES
           /\ DictGet(c.session_cache, key) # None
           /\ \E k \in 1..Len(c.trade_log) :
                  /\ c.trade_log[k].session = e.order_id[1]
                  /\ c.trade_log[k].timestamp = e.order_id[2]
                  /\ c.trade_log[k].bias = "bullish"
                  /\ c.trade_log[k].size = e.contracts
           /\ c.bars_df[1] <= StopLoss("bullish", DictGet(c.session_cache, key)[1])
           /\ e.pnl = (c.bars_df[1] - EntryPrice("bullish", DictGet(c.session_cache, key)[1]))
                          * e.contracts

\* the price has reached the target of the trade
TargetReached(tr, price) ==
    IF tr.bias = "bullish" THEN price >= tr.tp ELSE price <= tr.tp

\* C19 (as the specification states it): in every iteration whose exit check
\* runs with the price at the target of an open trade of any size >= 1 whose
\* partial take is not done, and neither the time limit nor the stop applies,
\* the trade stays open with partial_taken set, 75% of its original size
\* (rounded down) is reported closed, and its trailing stop is active at the
\* extreme price minus (long) or plus (short) 5 points.
PartialTakeAtTarget ==
    [][(polls' = polls + 1 /\ ExitCheckRan(outcome') /\ c'.bars_df # None) =>
        LET pre == Rollover(c, now)
            price == c'.bars_df[1]
        IN  \A i \in 1..Len(pre.open_trades) :
                LET tr == pre.open_trades[i]
                IN  (/\ tr.contracts >= 1
                     /\ ~tr.partial_taken
                     /\ TargetReached(tr, price)
                     /\ (now - tr.open_time) * 60 <= 3600
                     /\ ~(IF tr.bias = "bullish" THEN price <= tr.stop
                          ELSE price >= tr.stop)) =>
                        \E j \in 1..Len(c'.open_trades) :
                            LET after == c'.open_trades[j]
                            IN  /\ after.order_id = tr.order_id
                                /\ after.partial_taken
                                /\ after.contracts_remaining =
                                       tr.contracts - (tr.contracts * 75) \div 100
                                /\ after.trailing_stop_active
                                /\ after.trailing_stop_price =
                                       Some(IF tr.bias = "bullish"
                                            THEN after.highest_price[1] - 200
                                            ELSE after.lowest_price[1] + 200)
                                /\ \E k \in NewReports(tr.order_id) :
                                       /\ c'.exits[k].reason = "take_profit"
                                       /\ c'.exits[k].contracts =
                                              (tr.contracts * 75) \div 100]_vars

\* C20: in every iteration whose exit check runs with the price at or beyond
\* the stop of an open trade (price <= stop for a long, price >= stop for a
\* short), the trade leaves the open set in that iteration and exactly one
\* report is printed for it: a full exit of all contracts_remaining at the
\* current price, and no take-profit or trailing-stop report.  A stop-loss
\* report is always the only report of its iteration for its order, whose
\* trade is not open afterwards.
StopClosesAllRemaining ==
    [][(polls' = polls + 1 /\ ExitCheckRan(outcome') /\ c'.bars_df # None) =>
     /\ LET pre == Rollover(c, now)
            price == c'.bars_df[1]
        IN  \A i \in 1..Len(pre.open_trades) :
                LET tr == pre.open_trades[i]
                IN  (\/ tr.bias = "bullish" /\ price <= tr.stop
                     \/ tr.bias = "bearish" /\ price >= tr.stop) =>
                        /\ \A j \in 1..Len(c'.open_trades) :
                               c'.open_trades[j].order_id # tr.order_id
                        /\ Cardinality(NewReports(tr.order_id)) = 1
                        /\ \A k \in NewReports(tr.order_id) :
                               /\ c'.exits[k].reason \in {"stop_loss", "time_limit"}
                               /\ c'.exits[k].contracts = tr.contracts_remaining
                               /\ c'.exits[k].pnl =
                                      (IF tr.bias = "bullish" THEN price - tr.entry
                                       ELSE tr.entry - price) * tr.contracts_remaining
                               /\ (now - tr.open_time) * 60 <= 3600 =>
                                      c'.exits[k].reason = "stop_loss"
     /\ \A k \in 1..Len(c'.exits) :
            c'.exits[k].reason = "stop_loss" =>
                /\ NewReports(c'.exits[k].order_id) = {k}
                /\ \A j \in 1..Len(c'.open_trades) :
                       c'.open_trades[j].order_id # c'.exits[k].order_id]_vars

\* C20 witness: the iteration that has just ended printed one report for a
\* trade opened in an earlier iteration, its stop-loss exit with all the
\* contracts it was opened with; the trade is no longer open
StoppedOutInFull ==
    /\ polls > 0
    /\ ExitCheckRan(outcome)
    /\ c.exits # <<>>
    /\ c.bars_df # None
    /\ LET e == c.exits[Len(c.exits)]
       IN  /\ e.reason = "stop_loss"
           /\ e.pnl < 0
           /\ e.time = now
           /\ e.order_id[2] < now
           /\ \A j \in 1..Len(c.open_trades) : c.open_trades[j].order_id # e.order_id
           /\ \A k \in 1..(Len(c.exits) - 1) : c.exits[k].order_id # e.order_id
           /\ \E r \in 1..Len(c.trade_log) :
                  /\ c.trade_log[r].timestamp = e.order_id[2]
                  /\ c.trade_log[r].session = e.order_id[1]
                  /\ c.trade_log[r].size = e.contracts
                  /\ e.pnl = (IF c.trade_log[r].bias = "bullish" THEN 1 ELSE 0 - 1)
                                 * (c.bars_df[1] - EntryPrice(c.trade_log[r].bias,
                                                               FeedBoundaries(e.order_id[1])))
                                 * e.contracts

\* C21 (as the specification states it): a trade leaves the open set only
\* through a stop hit, a trailing-stop hit or a time-limit exit, which prints
\* its report with the realized P&L; no step, the date rollover included,
\* drops an open trade otherwise.
TradesLeaveByExitOnly ==
    [][\A i \in 1..Len(c.open_trades) :
           (\A j \in 1..Len(c'.open_trades) :
                c'.open_trades[j].order_id # c.open_trades[i].order_id) =>
               \E k \in 1..Len(c'.exits) :
                   /\ c'.exits[k].order_id = c.open_trades[i].order_id
                   /\ c'.exits[k].time = now
                   /\ c'.exits[k].reason \in {"stop_loss", "trailing_stop", "time_limit"}]_vars

\* the sum of the P&L of a sequence of exit reports
RECURSIVE SumPnl(_)
SumPnl(reports) ==
    IF reports = <<>> THEN 0 ELSE Head(reports).pnl + SumPnl(Tail(reports))

\* the P&L realized by closing n contracts of the logged order at price
RealizedPnl(row, session, price, n) ==
    LET entry == EntryPrice(row.bias, FeedBoundaries(session))
    IN  (IF row.bias = "bullish" THEN price - entry ELSE entry - price) * n

\* C22: every closure, partial or full, is booked once, in the iteration it
\* happens in, with its realized P&L: over every iteration daily_pnl and the
\* virtual balance change by the sum of the P&L of the exit reports the
\* iteration printed, each of which is the realized P&L of the contracts it
\* closed at the current price.  Hence daily_pnl is the sum of the realized
\* P&L of the closures since the last reset.
ClosuresBookedOnce ==
    [][polls' = polls + 1 =>
        LET pre == Rollover(c, now)
        IN  /\ c'.daily_pnl = pre.daily_pnl + SumPnl(c'.exits)
            /\ c'.account_balance_virtual = pre.account_balance_virtual + SumPnl(c'.exits)
            /\ \A k \in 1..Len(c'.exits) :
                   LET e == c'.exits[k]
                   IN  /\ e.contracts > 0
                       /\ \E r \in 1..Len(c'.trade_log) :
                              /\ c'.trade_log[r].session = e.order_id[1]
                              /\ c'.trade_log[r].timestamp = e.order_id[2]
                              /\ c'.trade_log[r].order_id = "order"
                              /\ e.pnl = RealizedPnl(c'.trade_log[r], e.order_id[1],
                                                     c'.bars_df[1], e.contracts)]_vars

\* C22 witness: the remainder of a trade whose partial take was booked with
\* a profit has just been closed by the trailing stop; daily_pnl is the sum of
\* the two closures
PartialAndRemainderBooked ==
    /\ polls > 0
    /\ ExitCheckRan(outcome)
    /\ c.exits # <<>>
    /\ LET e == c.exits[Len(c.exits)]
       IN  /\ e.reason = "trailing_stop"
           /\ e.time = now
           /\ c.daily_pnl - e.pnl > 0
           /\ \E r \in 1..Len(c.trade_log) :
                  /\ c.trade_log[r].session = e.order_id[1]
                  /\ c.trade_log[r].timestamp = e.order_id[2]
                  /\ c.trade_log[r].size > e.contracts

\* the evaluation that led to this outcome passed the freshness, re-trade and
\* risk guards
PassedGuards(tag) ==
    tag \in {"move_missed", "wait_retrace", "accepted", "failed", "error"}

\* C23 (as the specification states it): an evaluation that passes the
\* freshness, re-trade and risk guards with the latest close at or beyond the
\* take-profit level of the confirmation (bullish: price >= target, bearish:
\* price <= target) ends as a missed move: one slot of the session is consumed
\* and no order is submitted.
MoveMissedEitherBias ==
    [][(polls' = polls + 1 /\ PassedGuards(outcome')) =>
        LET pre == Rollover(c, now)
            s == get_current_session(now)[1]
            bias == mkt.conf[s][1].bias
            target == TakeProfit(bias, CachedBounds(s, now))
        IN  (\/ bias = "bullish" /\ mkt.close >= target
             \/ bias = "bearish" /\ mkt.close <= target) =>
                /\ c'.session_trades[s] = pre.session_trades[s] + 1
                /\ c'.trade_log = pre.trade_log
                /\ SameTrades(pre.open_trades, c'.open_trades)]_vars

\* a slot of the session was consumed by a missed move: the count is up and
\* no confirmation of the session was traded
SlotLostToMissedMove(cl, s) ==
    cl.session_trades[s] >= 1 /\ DictGet(cl.last_confirmation_traded, s) = None

\* C24: a missed move consumes exactly one slot of the session, and after it
\* no evaluation of the session submits an order or consumes another slot
\* before the daily reset.
MissedMoveClosesSession ==
    [][(polls' = polls + 1 /\ Invoked(outcome')) =>
        LET pre == Rollover(c, now)
            s == get_current_session(now)[1]
        IN  /\ outcome' = "move_missed" =>
                /\ pre.session_trades[s] = 0
                /\ c'.session_trades[s] = 1
                /\ c'.trade_log = pre.trade_log
                /\ SameTrades(pre.open_trades, c'.open_trades)
            /\ SlotLostToMissedMove(pre, s) =>
                /\ outcome' \notin {"accepted", "failed", "error", "move_missed"}
                /\ c'.session_trades[s] = 1
                /\ c'.trade_log = pre.trade_log
                /\ SameTrades(pre.open_trades, c'.open_trades)]_vars

\* C24 witness: after a missed move of a bullish confirmation that is still
\* fresh, a later bar has closed at or below the entry level and its
\* evaluation has ended without an order; one slot is consumed
RetraceAfterMissedMove ==
    /\ Invoked(outcome)
    /\ outcome # "skip"
    /\ LET s == get_current_session(now)[1]
       IN  /\ SlotLostToMissedMove(c, s)
           /\ c.session_trades[s] = 1
           /\ mkt.conf[s] # None
           /\ mkt.conf[s][1].bias = "bullish"
           /\ now - mkt.conf[s][1].time <= FRESHNESS_MINUTES
           /\ DictGet(c.last_processed_bar, s) = Some(mkt.bar_time)
           /\ mkt.close <= EntryPrice("bullish", FeedBoundaries(s))
           /\ c.trade_log = <<>>
           /\ c.open_trades = <<>>

\* C25: the open set holds at most one trade per session, and an order is
\* submitted for a session only when none of its trades is open.
OneOpenTradePerSession ==
    [][/\ \A i, j \in 1..Len(c'.open_trades) :
              i # j => c'.open_trades[i].session # c'.open_trades[j].session
       /\ (polls' = polls + 1 /\ outcome' \in {"accepted", "failed", "error"}) =>
              LET pre == Rollover(c, now)
              IN  \A i \in 1..Len(pre.open_trades) :
                      pre.open_trades[i].session # get_current_session(now)[1]]_vars

\* C25 witness: a trade of the active session is open, opened in an earlier
\* iteration, and a later bar of the session has been evaluated without an
\* order
HeldWhileSessionEvaluated ==
    /\ Invoked(outcome)
    /\ outcome # "skip"
    /\ LET s == get_current_session(now)[1]
       IN  /\ Len(c.open_trades) = 1
           /\ c.open_trades[1].session = s
           /\ c.open_trades[1].open_time < now
           /\ mkt.conf[s] # None
           /\ DictGet(c.last_processed_bar, s) = Some(mkt.bar_time)
           /\ Len(c.trade_log) = 1

\* the latest close has retraced to the entry level of the confirmation
Retraced(bias, b, price) ==
    IF bias = "bullish" THEN price <= EntryPrice(bias, b) ELSE price >= EntryPrice(bias, b)

\* C26 (as the specification states it): an order is submitted only when the
\* latest close has retraced to the entry level; an evaluation that passes the
\* guards with a price that has not retraced (and is not beyond the target)
\* leaves the slot count, the guard keys, the log and the open trades as they
\* are; and a later bar can still enter on the same confirmation: a new bar
\* that has retraced, evaluated while the confirmation is fresh and untraded
\* and the risk guards pass, leads to an order.
EntryOnRetrace ==
    [][(polls' = polls + 1 /\ Invoked(outcome') /\ outcome' # "skip"
        /\ mkt.conf[get_current_session(now)[1]] # None) =>
        LET pre == Rollover(c, now)
            s == get_current_session(now)[1]
            conf == mkt.conf[s][1]
            b == CachedBounds(s, now)
            attempt == outcome' \in {"accepted", "failed", "error"}
            beyond == IF conf.bias = "bullish" THEN mkt.close >= TakeProfit(conf.bias, b)
                      ELSE mkt.close <= TakeProfit(conf.bias, b)
        IN  /\ attempt => Retraced(conf.bias, b, mkt.close)
            /\ (PassedGuards(outcome') /\ ~Retraced(conf.bias, b, mkt.close) /\ ~beyond) =>
                   /\ c'.session_trades = pre.session_trades
                   /\ c'.last_confirmation_traded = pre.last_confirmation_traded
                   /\ c'.last_dr_traded = pre.last_dr_traded
                   /\ c'.trade_log = pre.trade_log
                   /\ SameTrades(pre.open_trades, c'.open_trades)
            /\ (/\ Retraced(conf.bias, b, mkt.close)
                /\ now - conf.time <= FRESHNESS_MINUTES
                /\ TimeOfDay(now) >= get_dr_window_end(s)
                /\ DictGet(pre.last_confirmation_traded, s) = None
                /\ pre.last_dr_traded = <<>>
                /\ \A i \in 1..Len(pre.open_trades) : pre.open_trades[i].session # s
                /\ can_trade(pre, s)) => attempt]_vars

\* C27 (as the specification states it): once the boundaries of a (session,
\* formation date) key are cached, every later evaluation of a new bar for
\* that key gets the cached values unchanged and goes on to the DR-window and
\* confirmation checks.
CachedBoundsReused ==
    [][(polls' = polls + 1 /\ Invoked(outcome') /\ outcome' # "skip") =>
        LET pre == Rollover(c, now)
            s == get_current_session(now)[1]
            cache_key == <<s, SessionDate(s, now)>>
        IN  cache_key \in DOMAIN pre.session_cache =>
                /\ ~IterationRaised(outcome')
                /\ outcome' # "no_boundaries"
                /\ cache_key \in DOMAIN c'.session_cache
                /\ c'.session_cache[cache_key] = pre.session_cache[cache_key]]_vars

\* C28 (as the specification states it): for adr the bars from 20:30 of the
\* formation date to 01:00 of the next date are considered: the first of
\* them that closes beyond the DR, a bar after midnight included, is the adr
\* confirmation of the formation date.
AdrConfirmedAcrossMidnight ==
    (/\ inp.session = "adr"
     /\ 0 \in DOMAIN out.bounds
     /\ out.bounds[0] # None) =>
        LET b == out.bounds[0][1]
            breaches == {i \in 1..Len(inp.bars) :
                            /\ inp.bars[i].t >= 0 * 1440 + 1230
                            /\ inp.bars[i].t <= 1 * 1440 + 60
                            /\ inp.bars[i].t > b.dr_end
                            /\ \/ inp.bars[i].close > b.dr_high
                               \/ inp.bars[i].close < b.dr_low}
        IN  breaches # {} =>
                /\ out.confirmations[0] # None
                /\ out.confirmations[0][1].time = inp.bars[MinOf(breaches)].t
                /\ out.confirmations[0][1].bias =
                       (IF inp.bars[MinOf(breaches)].close > b.dr_high
                        THEN "bullish" ELSE "bearish")

\* C29 (as the specification states it): whenever a session is active, the
\* adr interval from 00:00 to 01:00 of the next date included, and the
\* boundaries of its formation date are valid, the evaluation of a new bar
\* is not turned away as 'DR window not complete'.
WindowCompleteWhileTrading ==
    [][(polls' = polls + 1 /\ Invoked(outcome') /\ outcome' # "skip") =>
        LET pre == Rollover(c, now)
            s == get_current_session(now)[1]
            cache_key == <<s, SessionDate(s, now)>>
        IN  (\/ cache_key \in DOMAIN pre.session_cache
             \/ HasValidBounds(mkt, s, now)) =>
                outcome' # "dr_window_wait"]_vars

---------------------------------------------------------------------------
(* Properties of the risk state (specification RiskSpec) *)

\* C30: update_risk_state(pnl) with pnl <= 0 sets consecutive_wins to 0,
\* adds one to consecutive_losses and sets current_risk_percent to 1%; with
\* pnl > 0 it sets consecutive_losses to 0, adds one to consecutive_wins,
\* sets current_risk_percent to 2% when the wins are exactly 2 and to 1.5%
\* when they are more than 2; after any sequence of calls at most one of the
\* two streak counters is not zero.
RiskStateFollowsStreak ==
    [][(plan = "risk" /\ polls' = polls + 1) =>
        LET pnl == inp'[1]
        IN  /\ pnl <= 0 =>
                  /\ c'.consecutive_wins = 0
                  /\ c'.consecutive_losses = c.consecutive_losses + 1
                  /\ c'.current_risk_percent = 10
            /\ pnl > 0 =>
                  /\ c'.consecutive_losses = 0
                  /\ c'.consecutive_wins = c.consecutive_wins + 1
                  /\ c'.consecutive_wins = 2 => c'.current_risk_percent = 20
                  /\ c'.consecutive_wins > 2 => c'.current_risk_percent = 15
            /\ c'.consecutive_wins = 0 \/ c'.consecutive_losses = 0]_vars

\* C30 witness: a third gain in a row, booked after a closure without gain:
\* the risk percent is back at 1.5% and the loss streak is 0
ThirdWinAfterLoss ==
    /\ plan = "risk"
    /\ polls = 4
    /\ inp # None /\ inp[1] > 0
    /\ c.consecutive_wins = 3
    /\ c.consecutive_losses = 0
    /\ c.current_risk_percent = 15

---------------------------------------------------------------------------
(* Properties of the engine, continued (specification Spec) *)

\* C31 (as the specification states it): when an iteration finds the date
\* changed, the reset at its top leaves daily_pnl, the virtual balance, the
\* per-session trade counts, the streak counters, current_risk_percent, the
\* guard keys and the boundary cache at their initial values, whatever
\* happened before.
ResetRestoresInitial ==
    Date(now) # c.today =>
        LET post == Rollover(c, now)
            init == InitClient(Date(now))
        IN  /\ post.daily_pnl = init.daily_pnl
            /\ post.session_trades = init.session_trades
            /\ post.consecutive_wins = init.consecutive_wins
            /\ post.consecutive_losses = init.consecutive_losses
            /\ post.current_risk_percent = init.current_risk_percent
            /\ post.last_confirmation_traded = init.last_confirmation_traded
            /\ post.last_dr_traded = init.last_dr_traded
            /\ post.last_processed_bar = init.last_processed_bar
            /\ post.session_cache = init.session_cache
            /\ post.account_balance_virtual = init.account_balance_virtual

\* the rows of the trade log that record an accepted order of session s
\* on date d
AcceptedOrders(cl, s, d) ==
    {r \in 1..Len(cl.trade_log) :
        /\ cl.trade_log[r].order_id = "order"
        /\ cl.trade_log[r].session = s
        /\ Date(cl.trade_log[r].timestamp) = d}

\* the instants of the current date, after now, at which a bar closes inside
\* the trading window of session s
RemainingBars(s) ==
    {u \in (now + 1)..(Date(now) * 1440 + 1439) :
        u % 5 = 0 /\ get_current_session(u) = Some(s)}

\* the bar source at a later instant u of the date, the bar before u closing
\* at price: the confirmations found so far stay as they are
LaterMarket(u, price) ==
    [mkt EXCEPT !.bar_time = u - 5, !.close = price]

\* C32 (as the specification states it): a session has up to two entries per
\* date, gated by the cap of two trades.  No session has three accepted orders
\* on one date; and a session whose first order of the date was accepted and
\* whose trade has closed can open a second position: while the cap and the
\* daily loss limit are not reached and the trading window has bars to come,
\* there is a later bar of the date, at some closing price, whose evaluation
\* submits an order that is accepted.
SecondEntryUnderCap ==
    \A s \in Sessions :
        /\ Cardinality(AcceptedOrders(c, s, Date(now))) <= 2
        /\ (/\ c.today = Date(now)
            /\ Cardinality(AcceptedOrders(c, s, Date(now))) = 1
            /\ \A i \in 1..Len(c.open_trades) : c.open_trades[i].session # s
            /\ can_trade(c, s)
            /\ RemainingBars(s) # {}) =>
               \E u \in RemainingBars(s) :
                   \E price \in PricesAt(u) \cup {EntryPrice("bullish", CachedBounds(s, u)),
                                                  EntryPrice("bearish", CachedBounds(s, u))} :
                       Iteration(c, u, LaterMarket(u, price), "ok", "accepted").outcome
                           = "accepted"

---------------------------------------------------------------------------
(* Properties of position sizing, continued (specification SizeSpec) *)

\* C33 (as the specification states it): the capped sizing of the backtest
\* returns between 1 and 48 contracts for every entry and stop, and the loss
\* at the stop, stop distance x contracts x point value, is never above the
\* ceiling of 240 dollars.
CappedSizeBoundsLoss ==
    out.backtest # None =>
        /\ out.backtest[1] >= 1
        /\ out.backtest[1] <= 48
        /\ Abs(inp.entry - inp.stop) * out.backtest[1] <= 8 * 240

---------------------------------------------------------------------------
(* Properties of the range functions, continued (specification RangeSpec) *)

\* C34 (as the specification states it): when the engine computes the
\* boundaries of a (session, formation date) after the latest bar has closed,
\* the bars whose closes give idr_std are exactly the bars of the formation
\* interval that gave DR/IDR for that key (same date, both ends included), and
\* the 0.3 x IDR-range fallback is taken only when that interval has no bars.
IdrStdFromFormationBars ==
    inp.bars # <<>> =>
        LET s == inp.session
            t == inp.bars[Len(inp.bars)].t + 5
            dr_bars == get_session_window_bars(inp.bars, s, t)
            formation == FormationBars(inp.bars, s, SessionDate(s, t))
        IN  (/\ get_current_session(t) = Some(s)
             /\ compute_boundaries(inp.bars, s, SessionDate(s, t)) # None) =>
                /\ dr_bars = formation
                /\ dr_bars = <<>> => formation = <<>>

\* C35: as bars are appended in increasing time, a confirmation that
\* detect_confirmations has reported for the session and a date is reported
\* again, with the same time and bias, by every later analysis of the longer
\* series.
ConfirmationNeverRevised ==
    [][\A d \in DOMAIN out.confirmations :
           out.confirmations[d] # None =>
               /\ d \in DOMAIN out'.confirmations
               /\ out'.confirmations[d] = out.confirmations[d]]_vars

\* C35 witness: after the confirming bar a later bar of the trading interval
\* has closed beyond the other side of the DR, and the series was analysed
\* again
OppositeBreachAfterConfirmation ==
    /\ plan = "range"
    /\ 0 \in DOMAIN out.confirmations
    /\ out.confirmations[0] # None
    /\ \E i \in 1..Len(inp.bars) :
          LET b == out.bounds[0][1]
              conf == out.confirmations[0][1]
          IN  /\ inp.bars[i].t > conf.time
              /\ InTradingWindow(inp.bars[i].t, inp.session, 0)
              /\ IF conf.bias = "bullish" THEN inp.bars[i].close < b.dr_low
                 ELSE inp.bars[i].close > b.dr_high

---------------------------------------------------------------------------
(* Properties of the engine, continued (specification Spec) *)

\* the client as run_signals_on_bars finds it in an iteration at the current
\* instant, and as it leaves it when place_order answers resp
BeforeSignals == [[Rollover(c, now) EXCEPT !.exits = <<>>] EXCEPT !.bars_df = Some(mkt.close)]
AfterSignals(resp) ==
    run_signals_on_bars(BeforeSignals, get_current_session(now)[1], now, mkt, resp)

\* an iteration has just called run_signals_on_bars, which ended with tag
SignalsRan(tag) == polls' = polls + 1 /\ Invoked(outcome') /\ outcome' = tag

\* C36 (as the specification states it): run_signals_on_bars, however it
\* ends, leaves daily_pnl, the virtual balance, the per-session trade counts,
\* the streak counters and current_risk_percent as they were.
SignalsLeaveRiskState ==
    [][\A resp \in {"accepted", "failed", "error"} :
           SignalsRan(AfterSignals(resp).outcome) =>
               LET pre == BeforeSignals
                   post == AfterSignals(resp).cl
               IN  /\ post.daily_pnl = pre.daily_pnl
                   /\ post.account_balance_virtual = pre.account_balance_virtual
                   /\ post.consecutive_wins = pre.consecutive_wins
                   /\ post.consecutive_losses = pre.consecutive_losses
                   /\ post.current_risk_percent = pre.current_risk_percent
                   /\ post.session_trades = pre.session_trades]_vars

\* the outcomes of run_signals_on_bars that consume a slot of the session
SlotOutcomes == {"move_missed", "accepted", "failed", "error"}

\* C36, amended: run_signals_on_bars, however it ends, leaves daily_pnl, the
\* virtual balance, the streak counters and current_risk_percent as they
\* were; the trade count of the evaluated session goes up by one when the
\* evaluation ends as a missed move or with an order (accepted, failed or
\* errored) and stays otherwise, and the counts of the other sessions stay.
SignalsOnlyCountSlots ==
    [][\A resp \in {"accepted", "failed", "error"} :
           SignalsRan(AfterSignals(resp).outcome) =>
               LET pre == BeforeSignals
                   post == AfterSignals(resp).cl
                   s == get_current_session(now)[1]
               IN  /\ post.daily_pnl = pre.daily_pnl
                   /\ post.account_balance_virtual = pre.account_balance_virtual
                   /\ post.consecutive_wins = pre.consecutive_wins
                   /\ post.consecutive_losses = pre.consecutive_losses
                   /\ post.current_risk_percent = pre.current_risk_percent
                   /\ post.session_trades[s] =
                          pre.session_trades[s]
                              + (IF outcome' \in SlotOutcomes THEN 1 ELSE 0)
                   /\ \A x \in Sessions \ {s} :
                          post.session_trades[x] = pre.session_trades[x]]_vars

\* C36 witness: an order was accepted, and no exit reported, in an iteration
\* that found realized P&L booked and a streak running
AcceptedWithBookedPnl ==
    /\ outcome = "accepted"
    /\ polls > 0
    /\ c.exits = <<>>
    /\ c.daily_pnl # 0
    /\ c.consecutive_wins + c.consecutive_losses > 0

\* C37: every open trade has 1 <= contracts_remaining <= contracts and its
\* trailing stop active exactly when its partial take is done; from one
\* iteration to the next contracts_remaining of a trade does not go up and
\* partial_taken does not go back to false; and a trade whose partial take is
\* done gets no further take-profit report.
OpenTradeBookkeeping ==
    [][/\ \A j \in 1..Len(c'.open_trades) :
              LET tr == c'.open_trades[j]
              IN  /\ 1 <= tr.contracts_remaining
                  /\ tr.contracts_remaining <= tr.contracts
                  /\ tr.trailing_stop_active = tr.partial_taken
       /\ polls' = polls + 1 =>
              \A i \in 1..Len(c.open_trades) :
                  LET tr == c.open_trades[i]
                  IN  /\ \A j \in 1..Len(c'.open_trades) :
                             c'.open_trades[j].order_id = tr.order_id =>
                                 /\ c'.open_trades[j].contracts_remaining
                                        <= tr.contracts_remaining
                                 /\ c'.open_trades[j].contracts = tr.contracts
                                 /\ tr.partial_taken => c'.open_trades[j].partial_taken
                      /\ tr.partial_taken =>
                             \A k \in NewReports(tr.order_id) :
                                 c'.exits[k].reason # "take_profit"]_vars

\* C37 witness: the exit check has run again, with the price at the target,
\* on a trade whose partial take had been done in an earlier iteration
TargetSeenAfterPartialTake ==
    /\ polls > 0
    /\ ExitCheckRan(outcome)
    /\ c.bars_df # None
    /\ \E j \in 1..Len(c.open_trades) :
          LET tr == c.open_trades[j]
          IN  /\ tr.partial_taken
              /\ tr.contracts_remaining < tr.contracts
              /\ TargetReached(tr, c.bars_df[1])
              /\ \A k \in 1..Len(c.exits) : c.exits[k].order_id # tr.order_id

---------------------------------------------------------------------------
(* Properties of the entry model, continued (specification LevelsSpec) *)

\* C38: for every order the engine sizes, the stop is on the losing side of
\* the entry, 0.3 x IDR range + 2 points away (bullish: below, bearish:
\* above), hence at least 2 points; the target is not on the losing side of
\* the entry; so the stop distance that sizing divides by is positive and
\* the entry = stop branch of calculate_position_size is not taken.
StopBeyondEntry ==
    out # None =>
        LET b == inp.bounds
            range == b.idr_high - b.idr_low
            l == out[1]
            loss == IF inp.bias = "bullish" THEN l.entry_price - l.stop_loss
                    ELSE l.stop_loss - l.entry_price
            gain == IF inp.bias = "bullish" THEN l.take_profit - l.entry_price
                    ELSE l.entry_price - l.take_profit
        IN  /\ 10 * loss = 3 * range + 10 * 80
            /\ loss >= 80
            /\ gain >= 0
            /\ Abs(l.entry_price - l.stop_loss) > 0
            /\ "trade" \in DOMAIN l => l.trade.entry # l.trade.stop

\* C38 witness: an IDR of no width and an idr_std of 0, bearish: the stop is
\* exactly 2 points above the entry, the target at the entry
FlatRangeLevels ==
    /\ out # None
    /\ "trade" \in DOMAIN out[1]
    /\ inp.bias = "bearish"
    /\ inp.bounds.idr_high = inp.bounds.idr_low
    /\ inp.bounds.idr_std = 0
    /\ out[1].stop_loss - out[1].entry_price = 80
    /\ out[1].take_profit = out[1].entry_price

---------------------------------------------------------------------------
(* Properties of the engine, continued (specification Spec) *)

\* C39: a trade does not outlive the first exit check that runs more than one
\* hour after it was opened: after every iteration that reaches
\* check_open_trades, no trade of the open set is older than 3600 seconds.
\* (That iterations keep occurring and reach the exit check is the
\* assumption of the claim; the loop of run_forever has no exit.)
NoTradeOpenPastTimeLimit ==
    [][(polls' = polls + 1 /\ ExitCheckRan(outcome')) =>
        \A j \in 1..Len(c'.open_trades) :
            (now - c'.open_trades[j].open_time) * 60 <= 3600]_vars

\* C39 witness: the exit check of the iteration that has just ended closed a
\* trade for its age, at a price strictly between its stop and its target
\* (no other exit rule would have closed it)
ClosedForAgeOnly ==
    /\ polls > 0
    /\ ExitCheckRan(outcome)
    /\ c.bars_df # None
    /\ \E k \in 1..Len(c.exits) :
          LET e == c.exits[k]
              key == <<e.order_id[1], Date(now)>>
          IN  /\ e.reason = "time_limit"
              /\ e.time = now
              /\ now - e.order_id[2] > TIME_LIMIT_MINUTES
              /\ \A j \in 1..Len(c.open_trades) : c.open_trades[j].order_id # e.order_id
              /\ DictGet(c.session_cache, key) # None
              /\ \E r \in 1..Len(c.trade_log) :
                     LET row == c.trade_log[r]
                         b == DictGet(c.session_cache, key)[1]
                         price == c.bars_df[1]
                     IN  /\ row.session = e.order_id[1]
                         /\ row.timestamp = e.order_id[2]
                         /\ row.order_id = "order"
                         /\ IF row.bias = "bullish"
                            THEN StopLoss(row.bias, b) < price /\ price < TakeProfit(row.bias, b)
                            ELSE TakeProfit(row.bias, b) < price /\ price < StopLoss(row.bias, b)

\* the entries of a dict whose key is a pair that starts with session x
EntriesOf(d, x) == {<<k, d[k]>> : k \in {j \in DOMAIN d : j[1] = x}}

\* C40: session independence.  run_signals_on_bars for one session, however
\* it ends, leaves the trade count, the last-processed-bar, the
\* last-confirmation-traded and last-DR-traded keys, the cached boundaries
\* and the open trades of every other session as they were.
SessionsIndependent ==
    [][\A resp \in {"accepted", "failed", "error"} :
           SignalsRan(AfterSignals(resp).outcome) =>
               LET pre == BeforeSignals
                   post == AfterSignals(resp).cl
                   s == get_current_session(now)[1]
               IN  \A x \in Sessions \ {s} :
                       /\ post.session_trades[x] = pre.session_trades[x]
                       /\ DictGet(post.last_processed_bar, x) = DictGet(pre.last_processed_bar, x)
                       /\ DictGet(post.last_confirmation_traded, x)
                              = DictGet(pre.last_confirmation_traded, x)
                       /\ EntriesOf(post.last_dr_traded, x) = EntriesOf(pre.last_dr_traded, x)
                       /\ EntriesOf(post.session_cache, x) = EntriesOf(pre.session_cache, x)
                       /\ SelectSeq(post.open_trades, LAMBDA tr : tr.session = x)
                              = SelectSeq(pre.open_trades, LAMBDA tr : tr.session = x)]_vars

\* C40 witness: an rdr order was accepted in the iteration that has just
\* ended, which found an odr trade open (its exit check then closed it for
\* its age) and the odr count, guard keys and cache entry set
RdrAcceptedBesideOdr ==
    /\ polls > 0
    /\ outcome = "accepted"
    /\ get_current_session(now) = Some("rdr")
    /\ c.session_trades["odr"] >= 1
    /\ DictGet(c.last_confirmation_traded, "odr") # None
    /\ DictGet(c.last_processed_bar, "odr") # None
    /\ EntriesOf(c.last_dr_traded, "odr") # {}
    /\ EntriesOf(c.session_cache, "odr") # {}
    /\ \E k \in 1..Len(c.exits) :
          /\ c.exits[k].order_id[1] = "odr"
          /\ c.exits[k].time = now
    /\ \E j \in 1..Len(c.open_trades) : c.open_trades[j].session = "rdr"

=============================================================================
